---- MODULE Spec2Model ----
(***************************************************************************)
(* MskLang tree-walking interpreter (src/src/interpreter.rs,               *)
(* src/src/environment.rs, src/src/user_fun.rs, src/src/native_fun.rs).    *)
(*                                                                         *)
(* The Rust call stack of Interpreter::interpret / Interpreter::evaluate / *)
(* Callable::call is the sequence `stack` of frames; each frame carries    *)
(* the position (pc) its invocation has reached.  `ret` is the            *)
(* Result<MskValue, RuntimeError> an invocation hands back to its caller.  *)
(* Environments are Rc<RefCell<Environment>> cells: `envs` is the heap of  *)
(* cells, an environment reference is an index into it (0 = no parent).    *)
(***************************************************************************)
EXTENDS Integers, Sequences, FiniteSets, TLC

VARIABLES prog, stack, ret, env, envs, out, result

\* The front end (src/src/scanner.rs, src/src/parser.rs): the Scanner and the Parser
\* structs, and what scan_tokens and parse have returned.
VARIABLES scanner, scanned, parser, parsed

front == <<scanner, scanned, parser, parsed>>
vars == <<prog, stack, ret, env, envs, out, result, front>>

(***************************************************************************)
(* Bounds of the model.                                                    *)
(***************************************************************************)
\* Environment cells one run may allocate (begin_scope allocates one each).
MaxEnvs == 7
\* Depth of the Rust call stack (nested interpret/evaluate/call invocations).
MaxDepth == 14
\* Lines one run may print.
MaxOut == 4
\* Floats are the integers -MaxNum..MaxNum.
MaxNum == 4

(***************************************************************************)
(* MskValue (src/src/msk_value.rs).                                        *)
(***************************************************************************)
Nil == [t |-> "Nil"]
Float(n) == [t |-> "Float", n |-> n]
Boolean(b) == [t |-> "Boolean", b |-> b]
String(s) == [t |-> "String", s |-> s]
\* MskValue::Callable(Rc<UserFunction>): name, params, body and the captured closure.
UserFunction(name, params, body, closure) ==
    [t |-> "Callable", kind |-> "User", name |-> name, params |-> params,
     body |-> body, closure |-> closure]
\* MskValue::Callable(Rc<ClockNative>).
ClockNative == [t |-> "Callable", kind |-> "Native", name |-> "clock"]

\* MskValue::is_true
is_true(v) ==
    CASE v.t = "Boolean" -> v.b
      [] v.t = "Nil" -> FALSE
      [] OTHER -> TRUE

\* Callable::arity
arity(f) == IF f.kind = "User" THEN Len(f.params) ELSE 0

(***************************************************************************)
(* Result<MskValue, RuntimeError> and ControlFlow.                         *)
(***************************************************************************)
Ok(v) == [ok |-> TRUE, v |-> v]
Err(e) == [ok |-> FALSE, e |-> e]
\* RuntimeError::Error(String)
Error(msg) == [c |-> "Error", msg |-> msg]
\* RuntimeError::Control(ControlFlow::Break / Continue)
Break == [c |-> "Break"]
Continue == [c |-> "Continue"]
\* No result is pending.
NoRet == [none |-> TRUE]
\* Option::None of the AST's optional fields.
None == [none |-> TRUE]

IsErr(r) == r # NoRet /\ ~r.ok
IsOk(r) == r # NoRet /\ r.ok
IsControl(r) == IsErr(r) /\ r.e.c \in {"Break", "Continue", "Return"}
IsError(r) == IsErr(r) /\ r.e.c = "Error"

(***************************************************************************)
(* Environment (src/src/environment.rs).  A cell is                        *)
(* [values: name -> value or Unbound, parent: index or 0].                 *)
(***************************************************************************)
Names == {"x", "y", "f", "g", "clock"}
Unbound == [t |-> "Unbound"]
NoValues == [n \in Names |-> Unbound]

\* Environment::new
Environment_new == [values |-> NoValues, parent |-> 0]
\* Environment::new_with_parent
new_with_parent(p) == [values |-> NoValues, parent |-> p]

\* HashMap::contains_key on the cell's own table
contains_key(E, e, name) == E[e].values[name] # Unbound

\* Environment::define: the heap after inserting into cell e only.
define_outermost(E, e, name, value) ==
    LET RECURSIVE root(_)
        root(c) == IF E[c].parent = 0 THEN c ELSE root(E[c].parent)
    IN [E EXCEPT ![root(e)].values[name] = value]
define(E, e, name, value) == [E EXCEPT ![e].values[name] = value]

\* Environment::get_from_parent: Some(value) as [some |-> v], None as None.
RECURSIVE get_from_parent(_, _, _)
get_from_parent(E, e, name) ==
    IF E[e].parent # 0
    THEN LET p == E[e].parent IN
         IF contains_key(E, p, name)
         THEN [some |-> E[p].values[name]]
         ELSE get_from_parent(E, p, name)
    ELSE None

UndefinedVariable(name) == Error("Undefined variable '" \o name \o "'.")

\* Environment::get
get_one_level(E, e, name) ==
    IF contains_key(E, e, name) THEN Ok(E[e].values[name])
    ELSE IF E[e].parent # 0 /\ contains_key(E, E[e].parent, name)
         THEN Ok(E[E[e].parent].values[name])
         ELSE Err(UndefinedVariable(name))
get(E, e, name) ==
    IF contains_key(E, e, name)
    THEN Ok(E[e].values[name])
    ELSE LET r == get_from_parent(E, e, name) IN
         IF r # None THEN Ok(r.some) ELSE Err(UndefinedVariable(name))

\* Environment::assign: [res |-> Ok/Err, envs |-> heap afterwards].
assign_or_define(E, e, name, value) ==
    LET RECURSIVE walk(_)
        walk(c) == IF contains_key(E, c, name) THEN c
                   ELSE IF E[c].parent = 0 THEN 0 ELSE walk(E[c].parent)
        b == walk(e)
    IN IF b # 0 THEN [res |-> Ok(Nil), envs |-> [E EXCEPT ![b].values[name] = value]]
       ELSE [res |-> Ok(Nil), envs |-> [E EXCEPT ![e].values[name] = value]]
RECURSIVE assign(_, _, _, _)
assign(E, e, name, value) ==
    IF contains_key(E, e, name)
    THEN [res |-> Ok(Nil), envs |-> [E EXCEPT ![e].values[name] = value]]
    ELSE IF E[e].parent = 0
         THEN [res |-> Err(UndefinedVariable(name)), envs |-> E]
         ELSE assign(E, E[e].parent, name, value)

\* Environment::get_parent_env
get_parent_env(E, e) == E[e].parent

(***************************************************************************)
(* AST (src/src/ast.rs).  A literal expression holds its token: the token  *)
(* type and, for String and Number, the literal.  Operators are the token  *)
(* types of their tokens, names the lexemes of theirs.  Tokens carry no    *)
(* line here, so error messages are without their "[line N] " prefix.      *)
(***************************************************************************)
Tok(token_type, literal) == [token_type |-> token_type, literal |-> literal]
ELiteral(value) == [e |-> "Literal", value |-> value]
EVariable(name) == [e |-> "Variable", name |-> name]
EAssign(name, value) == [e |-> "Assign", name |-> name, value |-> value]
EUnary(operator, right) == [e |-> "Unary", operator |-> operator, right |-> right]
EBinary(left, operator, right) ==
    [e |-> "Binary", left |-> left, operator |-> operator, right |-> right]
ELogical(left, operator, right) ==
    [e |-> "Logical", left |-> left, operator |-> operator, right |-> right]
EGrouping(expression) == [e |-> "Grouping", expression |-> expression]
ECall(callee, arguments) == [e |-> "Call", callee |-> callee, arguments |-> arguments]

SExpression(expression) == [s |-> "Expression", expression |-> expression]
SPrint(expression) == [s |-> "Print", expression |-> expression]
SVar(name, initializer) == [s |-> "Var", name |-> name, initializer |-> initializer]
SBlock(statements) == [s |-> "Block", statements |-> statements]
SIf(condition, then_branch, else_branch) ==
    [s |-> "If", condition |-> condition, then_branch |-> then_branch,
     else_branch |-> else_branch]
SWhile(condition, body) == [s |-> "While", condition |-> condition, body |-> body]
SFor(initializer, condition, increment, body) ==
    [s |-> "For", initializer |-> initializer, condition |-> condition,
     increment |-> increment, body |-> body]
SBreak == [s |-> "Break"]
SContinue == [s |-> "Continue"]
SFunction(name, params, body) ==
    [s |-> "Function", name |-> name, params |-> params, body |-> body]
SReturn(value) == [s |-> "Return", value |-> value]

\* Shorthands for writing programs.
Num(n) == ELiteral(Tok("Number", n))
Str(s) == ELiteral(Tok("String", s))
True == ELiteral(Tok("True", 0))
False == ELiteral(Tok("False", 0))
NilLit == ELiteral(Tok("Nil", 0))
V(name) == EVariable(name)

(***************************************************************************)
(* Frames of the call stack.  `base` is a history field: the environment   *)
(* that was current when the invocation started.  No action reads it.      *)
(***************************************************************************)
\* An invocation of Interpreter::interpret(stmts); i is the `for stmt in stmt` cursor.
InterpretFrame(stmts, b) ==
    [fn |-> "interpret", stmts |-> stmts, i |-> 1, pc |-> "loop", base |-> b]
\* An invocation of Interpreter::evaluate(expr); vals are the operand values so far.
EvaluateFrame(expr, b) ==
    [fn |-> "evaluate", expr |-> expr, pc |-> "start", vals |-> <<>>, base |-> b]
\* An invocation of Callable::call(interpreter, args) on func.
CallFrame(func, args, b) ==
    [fn |-> "call", func |-> func, args |-> args, pc |-> "start", base |-> b]

Top == stack[Len(stack)]
\* The statement the top interpret frame is executing.
Cur == Top.stmts[Top.i]
AtStmt(kind) ==
    /\ stack # <<>>
    /\ Top.fn = "interpret"
    /\ Top.i <= Len(Top.stmts)
    /\ Cur.s = kind
AtExpr(kind) ==
    /\ stack # <<>>
    /\ Top.fn = "evaluate"
    /\ Top.expr.e = kind

\* The invocation on top moves to frame f.
Goto(f) == stack' = [stack EXCEPT ![Len(stack)] = f]
\* The invocation on top, left as f, invokes g.
Invoke(f, g) ==
    /\ Len(stack) < MaxDepth
    /\ stack' = Append([stack EXCEPT ![Len(stack)] = f], g)
    /\ ret' = NoRet
\* The invocation on top returns r to its caller.
Return(r) ==
    /\ stack' = SubSeq(stack, 1, Len(stack) - 1)
    /\ ret' = r
\* `for stmt in stmt`: the top interpret frame goes on to its next statement.
NextStmt ==
    /\ Goto([Top EXCEPT !.i = Top.i + 1, !.pc = "loop"])
    /\ ret' = NoRet

(***************************************************************************)
(* Interpreter::begin_scope / end_scope and ScopeGuard                     *)
(* (src/src/interpreter.rs).                                               *)
(***************************************************************************)
\* begin_scope: a new cell whose parent is the current environment becomes current.
begin_scope_envs(E, e) == Append(E, new_with_parent(e))
begin_scope_env(E, e) == Len(E) + 1
\* end_scope: the parent of the current environment becomes current; without a
\* parent a fresh empty Environment does.
end_scope_envs(E, e) ==
    IF get_parent_env(E, e) # 0 THEN E ELSE Append(E, Environment_new)
end_scope_env(E, e) ==
    IF get_parent_env(E, e) # 0 THEN get_parent_env(E, e) ELSE Len(E) + 1

\* ScopeGuard::new
ScopeGuard_new ==
    /\ Len(envs) < MaxEnvs
    /\ envs' = begin_scope_envs(envs, env)
    /\ env' = begin_scope_env(envs, env)
\* Drop for ScopeGuard
ScopeGuard_drop ==
    /\ envs' = end_scope_envs(envs, env)
    /\ env' = end_scope_env(envs, env)

(***************************************************************************)
(* Interpreter::interpret (src/src/interpreter.rs), one action per         *)
(* statement kind.  pc "loop" is the head of `for stmt in stmt`; the other *)
(* pcs are the points where the arm waits for a nested invocation.         *)
(***************************************************************************)
ExecExpression_continues ==
    /\ AtStmt("Expression")
    /\ IF Top.pc = "loop"
       THEN Invoke([Top EXCEPT !.pc = "expr_ret"], EvaluateFrame(Cur.expression, env))
       ELSE Top.pc = "expr_ret" /\ (IF IsErr(ret) THEN Return(ret) ELSE NextStmt)
    /\ UNCHANGED <<front, prog, env, envs, out, result>>
\* Stmt::Expression: return self.evaluate(&expression)
ExecExpression ==
    /\ AtStmt("Expression")
    /\ IF Top.pc = "loop"
       THEN Invoke([Top EXCEPT !.pc = "expr_ret"], EvaluateFrame(Cur.expression, env))
       ELSE Top.pc = "expr_ret" /\ Return(ret)
    /\ UNCHANGED <<front, prog, env, envs, out, result>>

\* Stmt::Print: evaluate(..)?; println!
ExecPrint ==
    /\ AtStmt("Print")
    /\ CASE Top.pc = "loop" ->
              /\ Invoke([Top EXCEPT !.pc = "print_ret"], EvaluateFrame(Cur.expression, env))
              /\ out' = out
         [] Top.pc = "print_ret" /\ IsErr(ret) ->
              /\ Return(ret)
              /\ out' = out
         [] Top.pc = "print_ret" /\ IsOk(ret) ->
              /\ Len(out) < MaxOut
              /\ out' = Append(out, ret.v)
              /\ NextStmt
    /\ UNCHANGED <<front, prog, env, envs, result>>

\* Stmt::Var: the initializer's value, or Nil, is defined in the current environment.
ExecVar ==
    /\ AtStmt("Var")
    /\ CASE Top.pc = "loop" /\ Cur.initializer # None ->
              /\ Invoke([Top EXCEPT !.pc = "var_ret"], EvaluateFrame(Cur.initializer, env))
              /\ envs' = envs
         [] Top.pc = "loop" /\ Cur.initializer = None ->
              /\ envs' = define(envs, env, Cur.name, Nil)
              /\ NextStmt
         [] Top.pc = "var_ret" /\ IsErr(ret) ->
              /\ Return(ret)
              /\ envs' = envs
         [] Top.pc = "var_ret" /\ IsOk(ret) ->
              /\ envs' = define(envs, env, Cur.name, ret.v)
              /\ NextStmt
    /\ UNCHANGED <<front, prog, env, out, result>>

\* Stmt::Block: let guard = ScopeGuard::new(self); guard.interpreter.interpret(statements)?;
ExecBlock ==
    /\ AtStmt("Block")
    /\ CASE Top.pc = "loop" ->
              /\ ScopeGuard_new
              /\ Invoke([Top EXCEPT !.pc = "block_ret"],
                        InterpretFrame(Cur.statements, begin_scope_env(envs, env)))
         [] Top.pc = "block_ret" ->
              /\ ScopeGuard_drop
              /\ IF IsErr(ret) THEN Return(ret) ELSE NextStmt
    /\ UNCHANGED <<front, prog, out, result>>

ExecIf_continues ==
    /\ AtStmt("If")
    /\ CASE Top.pc = "loop" ->
              Invoke([Top EXCEPT !.pc = "if_cond"], EvaluateFrame(Cur.condition, env))
         [] Top.pc = "if_cond" /\ IsErr(ret) -> Return(ret)
         [] Top.pc = "if_cond" /\ IsOk(ret) ->
              IF is_true(ret.v)
              THEN Invoke([Top EXCEPT !.pc = "if_branch"],
                          InterpretFrame(<<Cur.then_branch>>, env))
              ELSE IF Cur.else_branch # None
                   THEN Invoke([Top EXCEPT !.pc = "if_branch"],
                               InterpretFrame(<<Cur.else_branch>>, env))
                   ELSE NextStmt
         [] Top.pc = "if_branch" -> IF IsErr(ret) THEN Return(ret) ELSE NextStmt
    /\ UNCHANGED <<front, prog, env, envs, out, result>>
\* Stmt::If: a taken branch is `return self.interpret(..)`.
ExecIf ==
    /\ AtStmt("If")
    /\ CASE Top.pc = "loop" ->
              Invoke([Top EXCEPT !.pc = "if_cond"], EvaluateFrame(Cur.condition, env))
         [] Top.pc = "if_cond" /\ IsErr(ret) -> Return(ret)
         [] Top.pc = "if_cond" /\ IsOk(ret) ->
              IF is_true(ret.v)
              THEN Invoke([Top EXCEPT !.pc = "if_branch"],
                          InterpretFrame(<<Cur.then_branch>>, env))
              ELSE IF Cur.else_branch # None
                   THEN Invoke([Top EXCEPT !.pc = "if_branch"],
                               InterpretFrame(<<Cur.else_branch>>, env))
                   ELSE NextStmt
         [] Top.pc = "if_branch" -> Return(ret)
    /\ UNCHANGED <<front, prog, env, envs, out, result>>

\* The match on the body's result in Stmt::While: what the loop does next.
while_match_catch_all(r) == IF r.ok THEN "next" ELSE "break"
while_match_continue_uncaught(r) ==
    CASE r.ok -> "next"
      [] r.e = Break -> "break"
      [] OTHER -> "return"
while_match_return_unwinds(r) ==
    CASE r.ok /\ r.v # Nil -> "return"
      [] r.ok -> "next"
      [] r.e = Break -> "break"
      [] r.e = Continue -> "continue"
      [] OTHER -> "return"
while_match(r) ==
    CASE r.ok -> "next"
      [] r.e = Break -> "break"
      [] r.e = Continue -> "continue"
      [] OTHER -> "return"

\* Stmt::While
ExecWhile ==
    /\ AtStmt("While")
    /\ CASE Top.pc = "loop" ->
              Invoke([Top EXCEPT !.pc = "while_cond"], EvaluateFrame(Cur.condition, env))
         [] Top.pc = "while_cond" /\ IsErr(ret) -> Return(ret)
         [] Top.pc = "while_cond" /\ IsOk(ret) ->
              IF is_true(ret.v)
              THEN Invoke([Top EXCEPT !.pc = "while_body"],
                          InterpretFrame(<<Cur.body>>, env))
              ELSE NextStmt
         [] Top.pc = "while_body" ->
              (CASE while_match(ret) \in {"next", "continue"} ->
                      Invoke([Top EXCEPT !.pc = "while_cond"],
                             EvaluateFrame(Cur.condition, env))
                 [] while_match(ret) = "break" -> NextStmt
                 [] while_match(ret) = "return" -> Return(ret))
    /\ UNCHANGED <<front, prog, env, envs, out, result>>

\* The match on the body's result in Stmt::For (the same arms in both loops).
for_match_continue_breaks(r) ==
    CASE r.ok -> "next"
      [] r.e = Break -> "break"
      [] r.e = Continue -> "break"
      [] OTHER -> "return"
for_match(r) ==
    CASE r.ok -> "next"
      [] r.e = Break -> "break"
      [] r.e = Continue -> "continue"
      [] OTHER -> "return"

\* Stmt::For: the head of `while cond` / `loop`, in environment e.
ForCheck(e) ==
    IF Cur.condition # None
    THEN Invoke([Top EXCEPT !.pc = "for_cond"], EvaluateFrame(Cur.condition, e))
    ELSE Invoke([Top EXCEPT !.pc = "for_body"], InterpretFrame(<<Cur.body>>, e))

\* Stmt::For
ExecFor ==
    /\ AtStmt("For")
    /\ CASE Top.pc = "loop" ->
              /\ ScopeGuard_new
              /\ IF Cur.initializer # None
                 THEN Invoke([Top EXCEPT !.pc = "for_init"],
                             InterpretFrame(<<Cur.initializer>>, begin_scope_env(envs, env)))
                 ELSE ForCheck(begin_scope_env(envs, env))
         [] Top.pc = "for_init" ->
              IF IsErr(ret)
              THEN ScopeGuard_drop /\ Return(ret)
              ELSE ForCheck(env) /\ UNCHANGED <<env, envs>>
         [] Top.pc = "for_cond" /\ IsErr(ret) -> ScopeGuard_drop /\ Return(ret)
         [] Top.pc = "for_cond" /\ IsOk(ret) ->
              IF is_true(ret.v)
              THEN /\ Invoke([Top EXCEPT !.pc = "for_body"],
                             InterpretFrame(<<Cur.body>>, env))
                   /\ UNCHANGED <<env, envs>>
              ELSE ScopeGuard_drop /\ NextStmt
         [] Top.pc = "for_body" ->
              (CASE for_match(ret) \in {"next", "continue"} ->
                      /\ IF Cur.increment # None
                         THEN Invoke([Top EXCEPT !.pc = "for_incr"],
                                     InterpretFrame(<<Cur.increment>>, env))
                         ELSE ForCheck(env)
                      /\ UNCHANGED <<env, envs>>
                 [] for_match(ret) = "break" -> ScopeGuard_drop /\ NextStmt
                 [] for_match(ret) = "return" -> ScopeGuard_drop /\ Return(ret))
         [] Top.pc = "for_incr" ->
              IF IsErr(ret)
              THEN ScopeGuard_drop /\ Return(ret)
              ELSE ForCheck(env) /\ UNCHANGED <<env, envs>>
    /\ UNCHANGED <<front, prog, out, result>>

\* Stmt::Break: return Err(RuntimeError::Control(ControlFlow::Break))
ExecBreak ==
    /\ AtStmt("Break")
    /\ Return(Err(Break))
    /\ UNCHANGED <<front, prog, env, envs, out, result>>

\* Stmt::Continue: return Err(RuntimeError::Control(ControlFlow::Continue))
ExecContinue ==
    /\ AtStmt("Continue")
    /\ Return(Err(Continue))
    /\ UNCHANGED <<front, prog, env, envs, out, result>>

\* Stmt::Function: the callable captures self.env and is defined under its name.
ExecFunction ==
    /\ AtStmt("Function")
    /\ envs' = define(envs, env, Cur.name, UserFunction(Cur.name, Cur.params, Cur.body, env))
    /\ NextStmt
    /\ UNCHANGED <<front, prog, env, out, result>>

\* Stmt::Return: return Ok(Nil) / Ok(self.evaluate(value)?)
ExecReturn ==
    /\ AtStmt("Return")
    /\ CASE Top.pc = "loop" /\ Cur.value = None -> Return(Ok(Nil))
         [] Top.pc = "loop" /\ Cur.value # None ->
              Invoke([Top EXCEPT !.pc = "return_ret"], EvaluateFrame(Cur.value, env))
         [] Top.pc = "return_ret" -> Return(ret)
    /\ UNCHANGED <<front, prog, env, envs, out, result>>

\* The statements are exhausted: Ok(MskValue::Nil)
InterpretEnd ==
    /\ stack # <<>>
    /\ Top.fn = "interpret"
    /\ Top.i > Len(Top.stmts)
    /\ Return(Ok(Nil))
    /\ UNCHANGED <<front, prog, env, envs, out, result>>

(***************************************************************************)
(* Interpreter::evaluate (src/src/interpreter.rs), one action per          *)
(* expression kind.                                                        *)
(***************************************************************************)
\* Expr::Literal: the token type decides the value.
literal_value(tok) ==
    CASE tok.token_type = "String" -> Ok(String(tok.literal))
      [] tok.token_type = "Number" -> Ok(Float(tok.literal))
      [] tok.token_type = "True" -> Ok(Boolean(TRUE))
      [] tok.token_type = "False" -> Ok(Boolean(FALSE))
      [] tok.token_type = "Nil" -> Ok(Nil)
      [] OTHER -> Err(Error("Unexpected token type: " \o tok.token_type))

EvalLiteral ==
    /\ AtExpr("Literal")
    /\ Return(literal_value(Top.expr.value))
    /\ UNCHANGED <<front, prog, env, envs, out, result>>

\* Expr::Variable: self.env.borrow().get(&name.lexeme, name.line)
EvalVariable ==
    /\ AtExpr("Variable")
    /\ Return(get(envs, env, Top.expr.name))
    /\ UNCHANGED <<front, prog, env, envs, out, result>>

\* Expr::Assign: evaluate the value, assign it, yield it.
EvalAssign ==
    /\ AtExpr("Assign")
    /\ CASE Top.pc = "start" ->
              /\ Invoke([Top EXCEPT !.pc = "value"], EvaluateFrame(Top.expr.value, env))
              /\ envs' = envs
         [] Top.pc = "value" /\ IsErr(ret) ->
              /\ Return(ret)
              /\ envs' = envs
         [] Top.pc = "value" /\ IsOk(ret) ->
              LET a == assign(envs, env, Top.expr.name, ret.v) IN
              /\ envs' = a.envs
              /\ Return(IF a.res.ok THEN Ok(ret.v) ELSE a.res)
    /\ UNCHANGED <<front, prog, env, out, result>>

Abs(n) == IF n < 0 THEN -n ELSE n
\* l / r on the Floats of the model, for r # 0 dividing l.
Quot(l, r) == IF (l < 0) = (r < 0) THEN Abs(l) \div Abs(r) ELSE -(Abs(l) \div Abs(r))
BothFloat(l, r) == l.t = "Float" /\ r.t = "Float"

\* TokenType::Plus: two numbers add, two strings concatenate.
plus(l, r) ==
    IF BothFloat(l, r) THEN Ok(Float(l.n + r.n))
    ELSE IF l.t = "String" /\ r.t = "String" THEN Ok(String(l.s \o r.s))
    ELSE Err(Error("Operands must be two numbers or two strings for '+' operator."))

slash_unchecked(l, r) ==
    IF BothFloat(l, r)
    THEN IF r.n = 0 THEN Ok(Float(0)) ELSE Ok(Float(Quot(l.n, r.n)))
    ELSE Err(Error("Operands must be numbers for '/' operator."))
\* TokenType::Slash: r == 0.0 is an error.
slash(l, r) ==
    IF BothFloat(l, r)
    THEN IF r.n = 0 THEN Err(Error("Division by zero is not allowed."))
         ELSE Ok(Float(Quot(l.n, r.n)))
    ELSE Err(Error("Operands must be numbers for '/' operator."))

equal_equal_nil(l, r) ==
    IF BothFloat(l, r) THEN Ok(Boolean(l.n = r.n))
    ELSE IF l.t = "String" /\ r.t = "String" THEN Ok(Boolean(l.s = r.s))
    ELSE IF l.t = "Boolean" /\ r.t = "Boolean" THEN Ok(Boolean(l.b = r.b))
    ELSE IF l.t = "Nil" /\ r.t = "Nil" THEN Ok(Boolean(TRUE))
    ELSE Ok(Boolean(FALSE))
\* TokenType::EqualEqual: payloads of two Floats, Strings or Booleans; else false.
equal_equal(l, r) ==
    IF BothFloat(l, r) THEN Ok(Boolean(l.n = r.n))
    ELSE IF l.t = "String" /\ r.t = "String" THEN Ok(Boolean(l.s = r.s))
    ELSE IF l.t = "Boolean" /\ r.t = "Boolean" THEN Ok(Boolean(l.b = r.b))
    ELSE Ok(Boolean(FALSE))

\* TokenType::BangEqual: payloads of two Floats, Strings or Booleans; else true.
bang_equal_other_false(l, r) ==
    IF l.t = r.t /\ l.t \in {"Float", "String", "Boolean"} THEN Ok(Boolean(l # r))
    ELSE Ok(Boolean(FALSE))
bang_equal(l, r) ==
    IF BothFloat(l, r) THEN Ok(Boolean(l.n # r.n))
    ELSE IF l.t = "String" /\ r.t = "String" THEN Ok(Boolean(l.s # r.s))
    ELSE IF l.t = "Boolean" /\ r.t = "Boolean" THEN Ok(Boolean(l.b # r.b))
    ELSE Ok(Boolean(TRUE))

\* Interpreter::evaluate_binary
evaluate_binary(op, l, r) ==
    CASE op = "Plus" -> plus(l, r)
      [] op = "Minus" ->
           IF BothFloat(l, r) THEN Ok(Float(l.n - r.n))
           ELSE Err(Error("Operands must be numbers for '-' operator."))
      [] op = "Star" ->
           IF BothFloat(l, r) THEN Ok(Float(l.n * r.n))
           ELSE Err(Error("Operands must be numbers for '*' operator."))
      [] op = "Slash" -> slash(l, r)
      [] op = "Greater" ->
           IF BothFloat(l, r) THEN Ok(Boolean(l.n > r.n))
           ELSE Err(Error("Operands must be numbers for '>' operator."))
      [] op = "GreaterEqual" ->
           IF BothFloat(l, r) THEN Ok(Boolean(l.n >= r.n))
           ELSE Err(Error("Operands must be numbers for '>=' operator."))
      [] op = "Less" ->
           IF BothFloat(l, r) THEN Ok(Boolean(l.n < r.n))
           ELSE Err(Error("Operands must be numbers for '<' operator."))
      [] op = "LessEqual" ->
           IF BothFloat(l, r) THEN Ok(Boolean(l.n <= r.n))
           ELSE Err(Error("Operands must be numbers for '<=' operator."))
      [] op = "EqualEqual" -> equal_equal(l, r)
      [] op = "BangEqual" -> bang_equal(l, r)
      [] OTHER -> Err(Error("Unsupported binary operator: " \o op))

\* The Floats of the model: a result outside them is not followed.
Representable(op, l, r, res) ==
    /\ res.ok /\ res.v.t = "Float" => res.v.n \in -MaxNum..MaxNum
    /\ op = "Slash" /\ BothFloat(l, r) /\ r.n # 0 => Quot(l.n, r.n) * r.n = l.n

\* Expr::Binary: left, then right, then evaluate_binary.
EvalBinary ==
    /\ AtExpr("Binary")
    /\ CASE Top.pc = "start" ->
              Invoke([Top EXCEPT !.pc = "left"], EvaluateFrame(Top.expr.left, env))
         [] Top.pc = "left" /\ IsErr(ret) -> Return(ret)
         [] Top.pc = "left" /\ IsOk(ret) ->
              Invoke([Top EXCEPT !.pc = "right", !.vals = <<ret.v>>],
                     EvaluateFrame(Top.expr.right, env))
         [] Top.pc = "right" /\ IsErr(ret) -> Return(ret)
         [] Top.pc = "right" /\ IsOk(ret) ->
              LET res == evaluate_binary(Top.expr.operator, Top.vals[1], ret.v) IN
              /\ Representable(Top.expr.operator, Top.vals[1], ret.v, res)
              /\ Return(res)
    /\ UNCHANGED <<front, prog, env, envs, out, result>>

\* Interpreter::evaluate_unary
evaluate_unary(op, value) ==
    CASE op = "Minus" ->
           IF value.t = "Float" THEN Ok(Float(-value.n))
           ELSE Err(Error("Operand must be a number."))
      [] op = "Bang" -> Ok(Boolean(~is_true(value)))
      [] OTHER -> Err(Error("Unsupported unary operator"))

\* Expr::Unary
EvalUnary ==
    /\ AtExpr("Unary")
    /\ CASE Top.pc = "start" ->
              Invoke([Top EXCEPT !.pc = "right"], EvaluateFrame(Top.expr.right, env))
         [] Top.pc = "right" /\ IsErr(ret) -> Return(ret)
         [] Top.pc = "right" /\ IsOk(ret) ->
              Return(evaluate_unary(Top.expr.operator, ret.v))
    /\ UNCHANGED <<front, prog, env, envs, out, result>>

\* Expr::Grouping
EvalGrouping ==
    /\ AtExpr("Grouping")
    /\ IF Top.pc = "start"
       THEN Invoke([Top EXCEPT !.pc = "inner"], EvaluateFrame(Top.expr.expression, env))
       ELSE Top.pc = "inner" /\ Return(ret)
    /\ UNCHANGED <<front, prog, env, envs, out, result>>

short_circuits_never(op, left_value) == FALSE
\* Expr::Logical: whether the left value is the result (Or: truthy, And: falsy).
short_circuits(op, left_value) ==
    IF op = "Or" THEN is_true(left_value)
    ELSE IF op = "And" THEN ~is_true(left_value)
    ELSE FALSE

\* Expr::Logical: the left value decides whether the right operand is evaluated.
EvalLogical ==
    /\ AtExpr("Logical")
    /\ CASE Top.pc = "start" ->
              Invoke([Top EXCEPT !.pc = "left"], EvaluateFrame(Top.expr.left, env))
         [] Top.pc = "left" /\ IsErr(ret) -> Return(ret)
         [] Top.pc = "left" /\ IsOk(ret) ->
              IF short_circuits(Top.expr.operator, ret.v)
              THEN Return(ret)
              ELSE Invoke([Top EXCEPT !.pc = "right"], EvaluateFrame(Top.expr.right, env))
         [] Top.pc = "right" -> Return(ret)
    /\ UNCHANGED <<front, prog, env, envs, out, result>>

ArityError_swapped(expected, got) ==
    Error("Expected " \o ToString(got) \o " arguments but got " \o ToString(expected) \o ".")
\* format!("[line {}] Expected {} arguments but got {}.", paren.line, func.arity(), args.len())
ArityError(expected, got) ==
    Error("Expected " \o ToString(expected) \o " arguments but got " \o ToString(got) \o ".")
\* format!("[line {}] Can only call functions and classes.", paren.line)
NotCallableError == Error("Can only call functions and classes.")

\* Expr::Call after the callee and the first Len(f.vals) - 1 arguments: evaluate the
\* next argument, or check the callee and the arity and dispatch to Callable::call.
CallNext(f) ==
    LET callee == f.vals[1]
        args == Tail(f.vals)
    IN IF Len(args) < Len(f.expr.arguments)
       THEN Invoke([f EXCEPT !.pc = "arg"],
                   EvaluateFrame(f.expr.arguments[Len(args) + 1], env))
       ELSE IF callee.t = "Callable"
            THEN IF Len(args) # arity(callee)
                 THEN Return(Err(ArityError(arity(callee), Len(args))))
                 ELSE Invoke([f EXCEPT !.pc = "call"], CallFrame(callee, args, env))
            ELSE Return(Err(NotCallableError))

\* Expr::Call
EvalCall ==
    /\ AtExpr("Call")
    /\ CASE Top.pc = "start" ->
              Invoke([Top EXCEPT !.pc = "callee"], EvaluateFrame(Top.expr.callee, env))
         [] Top.pc \in {"callee", "arg"} /\ IsErr(ret) -> Return(ret)
         [] Top.pc \in {"callee", "arg"} /\ IsOk(ret) ->
              CallNext([Top EXCEPT !.vals = Append(Top.vals, ret.v)])
         [] Top.pc = "call" -> Return(ret)
    /\ UNCHANGED <<front, prog, env, envs, out, result>>

(***************************************************************************)
(* UserFunction::call (src/src/user_fun.rs) and ClockNative::call          *)
(* (src/src/native_fun.rs).                                                *)
(***************************************************************************)
\* for (param, arg) in self.params.iter().zip(args): define(param, arg) in cell e.
RECURSIVE define_params(_, _, _, _)
define_params(E, e, params, args) ==
    IF params = <<>> \/ args = <<>> THEN E
    ELSE define_params(define(E, e, Head(params), Head(args)), e, Tail(params), Tail(args))

\* The parent of the scope a call enters: ScopeGuard::new(interpreter) takes the
\* interpreter's current environment e; func.closure is not read.
call_scope_closure(func, e) == func.closure
call_scope_parent(func, e) == e

call_result_stops_signals(r) == IF IsControl(r) THEN Ok(Nil) ELSE r
\* Ok(guard.interpreter.interpret(statements.as_slice())?): the body's Ok value, or
\* its Err, whatever it is, returned as it came.
call_result(r) == IF IsErr(r) THEN r ELSE Ok(r.v)

UserCall ==
    /\ stack # <<>>
    /\ Top.fn = "call"
    /\ Top.func.kind = "User"
    /\ CASE Top.pc = "start" /\ Len(Top.args) # arity(Top.func) ->
              /\ Return(Err(ArityError(arity(Top.func), Len(Top.args))))
              /\ UNCHANGED <<env, envs>>
         [] Top.pc = "start" /\ Len(Top.args) = arity(Top.func) ->
              LET p == call_scope_parent(Top.func, env)
                  scope == begin_scope_env(envs, p)
                  E == define_params(begin_scope_envs(envs, p), scope,
                                     Top.func.params, Top.args)
              IN /\ Len(envs) < MaxEnvs
                 /\ IF Top.func.body.s = "Block"
                    THEN /\ envs' = E
                         /\ env' = scope
                         /\ Invoke([Top EXCEPT !.pc = "body"],
                                   InterpretFrame(Top.func.body.statements, scope))
                    ELSE /\ envs' = end_scope_envs(E, scope)
                         /\ env' = end_scope_env(E, scope)
                         /\ Return(Err(Error("Function body must be a block statement.")))
         [] Top.pc = "body" ->
              /\ ScopeGuard_drop
              /\ Return(call_result(ret))
    /\ UNCHANGED <<front, prog, out, result>>

\* The seconds ClockNative may read from the system clock.
ClockTimes == {1, 2}

NativeCall ==
    /\ stack # <<>>
    /\ Top.fn = "call"
    /\ Top.func.kind = "Native"
    /\ \E now \in ClockTimes : Return(Ok(Float(now)))
    /\ UNCHANGED <<front, prog, env, envs, out, result>>

\* The outermost interpret returns to the driver.
Finish ==
    /\ stack = <<>>
    /\ ret # NoRet
    /\ result = NoRet
    /\ result' = ret
    /\ ret' = NoRet
    /\ UNCHANGED <<front, prog, stack, env, envs, out>>

(***************************************************************************)
(* The programs the interpreter is run on: statement sequences (bodies)    *)
(* placed in every kind of enclosing construct (contexts).                 *)
(***************************************************************************)
Lt(a, b) == EBinary(a, "Less", b)
Eq(a, b) == EBinary(a, "EqualEqual", b)
Plus(a, b) == EBinary(a, "Plus", b)
CallF(name) == ECall(V(name), <<>>)
\* x = x + 1 as a statement that does not end its sequence: { x = x + 1; }
Incr(name) == SBlock(<<SExpression(EAssign(name, Plus(V(name), Num(1))))>>)
\* -true: always an operand-type runtime error
Failing == EUnary("Minus", True)

Atoms ==
    { SPrint(V("x")),
      SBreak,
      SContinue,
      SPrint(Failing),
      SVar("x", Num(3)),
      SExpression(EAssign("x", Num(2))),
      Incr("x"),
      SReturn(V("x")) }

IfBodies ==
    { <<SIf(c, a, e), SPrint(V("x"))>> :
        c \in {Eq(V("x"), Num(1)), True},
        a \in {SBreak, SContinue, SPrint(Failing), SBlock(<<SBreak>>)},
        e \in {None, SContinue, SPrint(V("x"))} }

Bodies ==
    { <<a>> : a \in Atoms } \cup { <<a, b>> : a \in Atoms, b \in Atoms } \cup IfBodies

Prelude == <<SVar("x", Num(0))>>
Epilogue == <<SPrint(Num(9))>>

InContext(k, body) ==
    CASE k = "top" -> body
      [] k = "block" -> <<SBlock(body)>>
      [] k = "if" -> <<SBlock(<<SIf(True, SBlock(body), None)>>)>>
      [] k = "while" -> <<SWhile(Lt(V("x"), Num(2)), SBlock(<<Incr("x")>> \o body))>>
      [] k = "for" ->
           <<SFor(SVar("y", Num(0)), Lt(V("y"), Num(2)),
                  SExpression(EAssign("y", Plus(V("y"), Num(1)))), SBlock(body))>>
      [] k = "for_no_cond" ->
           <<SFor(None, None, SExpression(EAssign("x", Plus(V("x"), Num(1)))),
                  SBlock(<<SIf(EBinary(V("x"), "GreaterEqual", Num(2)), SBreak, None)>>
                         \o body))>>
      [] k = "for_no_incr" ->
           <<SFor(SExpression(EAssign("x", Num(1))), Lt(V("x"), Num(2)), None,
                  SBlock(<<Incr("x")>> \o body))>>
      [] k = "fun" -> <<SFunction("f", <<>>, SBlock(body)), SPrint(CallF("f"))>>
      [] k = "fun_in_while" ->
           <<SFunction("f", <<>>, SBlock(body)),
             SWhile(Lt(V("x"), Num(2)), SBlock(<<Incr("x"), SPrint(CallF("f"))>>))>>

Contexts ==
    {"top", "block", "if", "while", "for", "for_no_cond", "for_no_incr", "fun",
     "fun_in_while"}

ContextPrograms ==
    { Prelude \o InContext(k, body) \o Epilogue : k \in Contexts, body \in Bodies }

\* var x = a; { var x = b; print x; } print x;   and one block deeper
LitExprs == {Num(1), Num(2), Str("s"), True, NilLit}
ShadowProgram(a, b) ==
    <<SVar("x", a), SBlock(<<SVar("x", b), SPrint(V("x"))>>), SPrint(V("x"))>>
ShadowProgram2(a, b) ==
    <<SVar("x", a),
      SBlock(<<SVar("y", a), SBlock(<<SVar("x", b), SPrint(V("x"))>>), SPrint(V("x"))>>),
      SPrint(V("x"))>>
ShadowPrograms ==
    { ShadowProgram(a, b) : a \in LitExprs, b \in LitExprs }
    \cup { ShadowProgram2(a, b) : a \in LitExprs, b \in LitExprs }

\* var x = 1; fun f() { print x; } { x = 2; } <call of f from a call site>
CallSites ==
    { <<SExpression(CallF("f"))>>,
      <<SBlock(<<SExpression(CallF("f"))>>)>>,
      <<SBlock(<<SVar("x", Num(3)), SExpression(CallF("f"))>>)>>,
      <<SFunction("g", <<"x">>, SBlock(<<SExpression(CallF("f"))>>)),
        SExpression(ECall(V("g"), <<Num(3)>>))>> }
ClosureProgram(site) ==
    <<SVar("x", Num(1)), SFunction("f", <<>>, SBlock(<<SPrint(V("x"))>>)),
      SBlock(<<SExpression(EAssign("x", Num(2)))>>)>> \o site
ClosurePrograms == { ClosureProgram(site) : site \in CallSites }

\* fun f() { var x = 1; fun g() { return x; } return g; } var y = f(); print y();
EscapeProgram ==
    <<SFunction("f", <<>>,
                SBlock(<<SVar("x", Num(1)),
                         SFunction("g", <<>>, SBlock(<<SReturn(V("x"))>>)),
                         SReturn(V("g"))>>)),
      SVar("y", CallF("f")),
      SPrint(CallF("y"))>>

OtherPrograms ==
    { \* var x; print x or 1; print nil and (x = 2); print (clock());
      <<SVar("x", None), SPrint(ELogical(V("x"), "Or", Num(1))),
        SPrint(ELogical(NilLit, "And", EAssign("x", Num(2)))),
        SPrint(EGrouping(CallF("clock")))>>,
      \* fun f(x, y) { return x + y; } print f(1, 2); print f(1);
      <<SFunction("f", <<"x", "y">>, SBlock(<<SReturn(Plus(V("x"), V("y")))>>)),
        SPrint(ECall(V("f"), <<Num(1), Num(2)>>)),
        SPrint(ECall(V("f"), <<Num(1)>>))>>,
      \* var x = 1; print x(); 
      <<SVar("x", Num(1)), SPrint(CallF("x"))>>,
      \* fun f(x) { if (x < 2) { print f(x + 1); } return; } f(0); 
      <<SFunction("f", <<"x">>,
                  SBlock(<<SBlock(<<SIf(Lt(V("x"), Num(2)),
                                        SBlock(<<SPrint(ECall(V("f"), <<Plus(V("x"), Num(1))>>))>>),
                                        None)>>),
                           SReturn(None)>>)),
        SExpression(ECall(V("f"), <<Num(0)>>))>>,
      \* y = 1;  (assignment to a name no scope binds)
      <<SVar("x", Num(1)), SBlock(<<SBlock(<<SPrint(EAssign("y", Num(1)))>>)>>),
        SPrint(V("x"))>>,
      \* break; at top level
      <<SBreak>>,
      <<SContinue>> }

\* var x = 0; while (x < 2) { { x = x + 1; } if (x == 1) SIG; print x; } print 9;
WhileIfProgram(sig) ==
    Prelude \o InContext("while", <<SIf(Eq(V("x"), Num(1)), sig, None), SPrint(V("x"))>>)
    \o Epilogue

\* for (var y = 0; COND; y = y + 1) { if (y == 1) SIG; if (y == 3) break; print y; }
\* print 9;
ForProgram(cond, sig) ==
    <<SFor(SVar("y", Num(0)), cond, SExpression(EAssign("y", Plus(V("y"), Num(1)))),
           SBlock(<<SIf(Eq(V("y"), Num(1)), sig, None),
                    SIf(Eq(V("y"), Num(3)), SBreak, None),
                    SPrint(V("y"))>>))>>
    \o Epilogue
ForConds == {Lt(V("y"), Num(3)), None}
ForPrograms == { ForProgram(c, sig) : c \in ForConds, sig \in {SBreak, SContinue} }

\* var x = 1; print L op R; print x;
LogicalLefts == {Num(0), Num(1), Str(""), True, False, NilLit}
LogicalRights == {EAssign("x", Num(2)), Failing, Num(2), NilLit}
LogicalProgram(l, op, r) ==
    <<SVar("x", Num(1)), SPrint(ELogical(l, op, r)), SPrint(V("x"))>>
LogicalPrograms ==
    { LogicalProgram(l, op, r) : l \in LogicalLefts, op \in {"Or", "And"}, r \in LogicalRights }

\* print L op R;  for operands of every type of value
Operands == {Num(0), Num(1), Num(2), Str(""), Str("s"), True, False, NilLit, V("clock")}
BinaryProgram(l, op, r) == <<SPrint(EBinary(l, op, r))>>
EqualityOps == {"EqualEqual", "BangEqual"}
ArithmeticOps == {"Plus", "Minus", "Star", "Slash"}
BinaryPrograms ==
    { BinaryProgram(l, op, r) :
        l \in Operands, op \in EqualityOps \cup ArithmeticOps, r \in Operands }

\* fun f() { NEST return 2; } print f();   where NEST holds `return 1;`
ReturnNests ==
    { SBlock(<<SReturn(Num(1))>>),
      SIf(True, SReturn(Num(1)), None),
      SIf(False, SPrint(Num(0)), SReturn(Num(1))),
      SIf(True, SBlock(<<SReturn(Num(1))>>), None),
      SBlock(<<SIf(True, SReturn(Num(1)), None)>>),
      SIf(True, SIf(True, SReturn(Num(1)), None), None) }
ReturnProgram(nest) ==
    <<SFunction("f", <<>>, SBlock(<<nest, SReturn(Num(2))>>)), SPrint(CallF("f"))>>
ReturnPrograms == { ReturnProgram(nest) : nest \in ReturnNests }

\* return x = x + 1;
ReturnIncr == SReturn(EAssign("x", Plus(V("x"), Num(1))))
\* var x = 0; while (x < 2) return x = x + 1; print x; print 9;
WhileReturnProgram ==
    Prelude \o <<SWhile(Lt(V("x"), Num(2)), ReturnIncr), SPrint(V("x"))>> \o Epilogue
\* var x = 0; for (; x < 2;) return x = x + 1; print x; print 9;
ForReturnProgram ==
    Prelude \o <<SFor(None, Lt(V("x"), Num(2)), None, ReturnIncr), SPrint(V("x"))>>
    \o Epilogue
\* var x = 0; fun f() { while (x < 2) return x = x + 1; return 5; } print f(); print x;
WhileReturnInFunProgram ==
    Prelude
    \o <<SFunction("f", <<>>,
                    SBlock(<<SWhile(Lt(V("x"), Num(2)), ReturnIncr), SReturn(Num(5))>>)),
          SPrint(CallF("f")), SPrint(V("x"))>>
\* var x = 0; while (true) { if (x == 1) break; return x = x + 1; } print x; print 9;
WhileReturnBreakProgram ==
    Prelude
    \o <<SWhile(True, SBlock(<<SIf(Eq(V("x"), Num(1)), SBreak, None), ReturnIncr>>)),
          SPrint(V("x"))>>
    \o Epilogue
LoopReturnPrograms ==
    { WhileReturnProgram, ForReturnProgram, WhileReturnInFunProgram,
      WhileReturnBreakProgram }

\* if (x < 1) return 0; return NAME(x - 1);
Countdown(name) ==
    <<SIf(Lt(V("x"), Num(1)), SReturn(Num(0)), None),
      SReturn(ECall(V(name), <<EBinary(V("x"), "Minus", Num(1))>>))>>
\* fun f(x) { if (x < 1) return 0; return f(x - 1); } print f(1);
RecursionProgram ==
    <<SFunction("f", <<"x">>, SBlock(Countdown("f"))), SPrint(ECall(V("f"), <<Num(1)>>))>>
\* { fun f(x) { if (x < 1) return 0; return f(x - 1); } print f(1); }
RecursionInBlockProgram == <<SBlock(RecursionProgram)>>
\* fun f(x) { if (x < 1) return 0; return g(x - 1); } fun g(x) { return f(x); }
\* print f(1);
MutualRecursionProgram ==
    <<SFunction("f", <<"x">>, SBlock(Countdown("g"))),
      SFunction("g", <<"x">>, SBlock(<<SReturn(ECall(V("f"), <<V("x")>>))>>)),
      SPrint(ECall(V("f"), <<Num(1)>>))>>
\* fun f() { fun g(x) { if (x < 1) return 0; return g(x - 1); } return g; }
\* var y = f(); print y(1);
EscapedRecursionProgram ==
    <<SFunction("f", <<>>,
                SBlock(<<SFunction("g", <<"x">>, SBlock(Countdown("g"))), SReturn(V("g"))>>)),
      SVar("y", CallF("f")),
      SPrint(ECall(V("y"), <<Num(1)>>))>>
RecursionPrograms ==
    { RecursionProgram, RecursionInBlockProgram, MutualRecursionProgram,
      EscapedRecursionProgram }

\* print L == R; print L != R;
EqualityPairProgram(l, r) ==
    <<SPrint(EBinary(l, "EqualEqual", r)), SPrint(EBinary(l, "BangEqual", r))>>
\* fun f() {} print f == f; print f != f;
FunctionEqualityProgram ==
    <<SFunction("f", <<>>, SBlock(<<>>))>> \o EqualityPairProgram(V("f"), V("f"))
EqualityPairPrograms ==
    { EqualityPairProgram(l, r) : l \in Operands, r \in Operands }
    \cup {FunctionEqualityProgram}

Programs ==
    ReturnPrograms \cup LoopReturnPrograms \cup RecursionPrograms \cup EqualityPairPrograms \cup
    BinaryPrograms \cup ContextPrograms \cup ShadowPrograms \cup ClosurePrograms \cup {EscapeProgram}
    \cup ForPrograms \cup OtherPrograms \cup LogicalPrograms

(***************************************************************************)
(* Interpreter::new: the global environment with the native functions;    *)
(* the driver then calls interpret(prog).                                  *)
(***************************************************************************)
GlobalEnv == [Environment_new EXCEPT !.values["clock"] = ClockNative]

\* No scan and no parse is under way.
FrontIdle == scanner = None /\ scanned = None /\ parser = None /\ parsed = None

Init ==
    /\ FrontIdle
    /\ prog \in Programs
    /\ envs = <<GlobalEnv>>
    /\ env = 1
    /\ stack = <<InterpretFrame(prog, 1)>>
    /\ ret = NoRet
    /\ out = <<>>
    /\ result = NoRet

Next ==
    \/ ExecExpression
    \/ ExecPrint
    \/ ExecVar
    \/ ExecBlock
    \/ ExecIf
    \/ ExecWhile
    \/ ExecFor
    \/ ExecBreak
    \/ ExecContinue
    \/ ExecFunction
    \/ ExecReturn
    \/ InterpretEnd
    \/ EvalLiteral
    \/ EvalVariable
    \/ EvalAssign
    \/ EvalBinary
    \/ EvalUnary
    \/ EvalGrouping
    \/ EvalLogical
    \/ EvalCall
    \/ UserCall
    \/ NativeCall
    \/ Finish

Spec == Init /\ [][Next]_vars

(***************************************************************************)
(* Scanner (src/src/scanner.rs) and Token (src/src/token.rs).  A text is a *)
(* sequence of characters, each a one-character string.  chars, the        *)
(* Peekable<Chars> of the Scanner, is the source and the number of         *)
(* characters consumed (pos).                                              *)
(***************************************************************************)
\* Source texts are at most MaxSrc characters long.
MaxSrc == 3

DigitChars == <<"0", "1", "2", "3", "4", "5", "6", "7", "8", "9">>
Digits == { DigitChars[k] : k \in 1..10 }
Letters ==
    { "a", "b", "c", "d", "e", "f", "g", "h", "i", "j", "k", "l", "m", "n",
      "o", "p", "q", "r", "s", "t", "u", "v", "w", "x", "y", "z", "A", "B",
      "C", "D", "E", "F", "G", "H", "I", "J", "K", "L", "M", "N", "O", "P",
      "Q", "R", "S", "T", "U", "V", "W", "X", "Y", "Z" }
is_ascii_digit(c) == c \in Digits
is_ascii_alphabetic(c) == c \in Letters
is_ascii_alphanumeric(c) == c \in Letters \cup Digits
\* Option::None of peek() and advance(): no character is left.
NoChar == ""

\* TokenType, in the order of the enum.
TokenType ==
    { "LeftParen", "RightParen", "LeftBrace", "RightBrace", "Comma", "Dot",
      "Minus", "Plus", "Semicolon", "Slash", "Star", "Bang", "BangEqual",
      "Equal", "EqualEqual", "Greater", "GreaterEqual", "Less",
      "LessEqual", "Identifier", "String", "Number", "And", "Class",
      "Else", "False", "Fun", "For", "If", "Nil", "Or", "Print", "Return",
      "Super", "This", "True", "Var", "While", "Eof" }
\* Token::new
Token_new(token_type, lexeme, literal, line) ==
    [token_type |-> token_type, lexeme |-> lexeme, literal |-> literal, line |-> line]
\* Literal::String, Literal::Number
Literal_String(s) == [l |-> "String", s |-> s]
Literal_Number(n) == [l |-> "Number", n |-> n]

\* The f64 a number lexeme parses to, as a decimal: the integer part and the
\* fraction digits without trailing zeros (str::parse::<f64> of digits[.digits]).
RECURSIVE digits_value(_)
digits_value(ds) ==
    IF ds = <<>> THEN 0
    ELSE digits_value(SubSeq(ds, 1, Len(ds) - 1)) * 10
         + (CHOOSE k \in 0..9 : DigitChars[k + 1] = ds[Len(ds)])
RECURSIVE strip_zeros(_)
strip_zeros(ds) ==
    IF ds # <<>> /\ ds[Len(ds)] = "0" THEN strip_zeros(SubSeq(ds, 1, Len(ds) - 1)) ELSE ds
parse_f64(lexeme) ==
    LET dots == { k \in 1..Len(lexeme) : lexeme[k] = "." }
        dot == IF dots = {} THEN Len(lexeme) + 1 ELSE CHOOSE k \in dots : TRUE
    IN [i |-> digits_value(SubSeq(lexeme, 1, dot - 1)),
        f |-> strip_zeros(SubSeq(lexeme, dot + 1, Len(lexeme)))]

\* Scanner::new
Scanner_new(source) ==
    [source |-> source, pos |-> 0, tokens |-> <<>>, line |-> 1, had_error |-> FALSE]
\* Scanner::peek, Scanner::advance
peek(s) == IF s.pos < Len(s.source) THEN s.source[s.pos + 1] ELSE NoChar
advance(s) == IF s.pos < Len(s.source) THEN [s EXCEPT !.pos = @ + 1] ELSE s
\* Scanner::match_char: whether the next character is `expected`, and the scanner
\* past it if so.
match_char(s, expected) ==
    [matched |-> peek(s) = expected,
     s |-> IF peek(s) = expected THEN advance(s) ELSE s]
\* Scanner::add_chars_token, Scanner::add_literal_token
add_chars_token(s, token_type, lexeme) ==
    [s EXCEPT !.tokens = Append(@, Token_new(token_type, lexeme, None, s.line))]
add_literal_token(s, token_type, lexeme, literal) ==
    [s EXCEPT !.tokens = Append(@, Token_new(token_type, lexeme, literal, s.line))]

\* The single-character tokens of scan_token.
SingleChars == {"(", ")", "{", "}", ",", ".", "-", "+", ";", "*"}
single_type(c) ==
    CASE c = "(" -> "LeftParen" [] c = ")" -> "RightParen"
      [] c = "{" -> "LeftBrace" [] c = "}" -> "RightBrace"
      [] c = "," -> "Comma" [] c = "." -> "Dot"
      [] c = "-" -> "Minus" [] c = "+" -> "Plus"
      [] c = ";" -> "Semicolon" [] c = "*" -> "Star"
\* The tokens that may be followed by '=': the type alone and with '='.
OperatorChars == {"!", "=", "<", ">"}
operator_types(c) ==
    CASE c = "!" -> <<"Bang", "BangEqual">>
      [] c = "=" -> <<"Equal", "EqualEqual">>
      [] c = "<" -> <<"Less", "LessEqual">>
      [] c = ">" -> <<"Greater", "GreaterEqual">>
operator(s, c) ==
    LET m == match_char(s, "=") IN
    IF m.matched THEN add_chars_token(m.s, operator_types(c)[2], <<c, "=">>)
    ELSE add_chars_token(m.s, operator_types(c)[1], <<c>>)

\* '/': a comment runs up to, not including, the next newline.
RECURSIVE skip_comment(_)
skip_comment(s) ==
    IF peek(s) = NoChar \/ peek(s) = "\n" THEN s ELSE skip_comment(advance(s))
slash_or_comment(s) ==
    LET m == match_char(s, "/") IN
    IF m.matched THEN skip_comment(m.s) ELSE add_chars_token(m.s, "Slash", <<"/">>)

BlankChars == {" ", "\r", "\t"}

\* Scanner::string: the characters up to the closing quote; newlines count.
RECURSIVE string_chars(_, _)
string_chars(s, value) ==
    IF peek(s) = NoChar \/ peek(s) = "\"" THEN [s |-> s, value |-> value]
    ELSE string_chars(advance(IF peek(s) = "\n" THEN [s EXCEPT !.line = @ + 1] ELSE s),
                      Append(value, peek(s)))
string_lexeme_unquoted(s) ==
    LET r == string_chars(s, <<>>) IN
    IF peek(r.s) = NoChar THEN [r.s EXCEPT !.had_error = TRUE]
    ELSE add_literal_token(advance(r.s), "String", r.value, Literal_String(r.value))
string_keeps_scanning(s) ==
    LET r == string_chars(s, <<>>) IN
    add_literal_token(advance(r.s), "String", <<"\"">> \o r.value \o <<"\"">>,
                      Literal_String(r.value))
string(s) ==
    LET r == string_chars(s, <<>>) IN
    IF peek(r.s) = NoChar THEN [r.s EXCEPT !.had_error = TRUE]
    ELSE add_literal_token(advance(r.s), "String", <<"\"">> \o r.value \o <<"\"">>,
                           Literal_String(r.value))

\* The run of digits at the scanner, appended to lexeme.
RECURSIVE digit_run(_, _)
digit_run(s, lexeme) ==
    IF peek(s) = NoChar \/ ~is_ascii_digit(peek(s)) THEN [s |-> s, lexeme |-> lexeme]
    ELSE digit_run(advance(s), Append(lexeme, peek(s)))
\* Scanner::number: digits, then '.' and digits when a digit follows the '.'.
number(s, first_char) ==
    LET int == digit_run(s, <<first_char>>)
        ahead == advance(int.s)
        all == IF peek(int.s) = "." /\ peek(ahead) # NoChar /\ is_ascii_digit(peek(ahead))
               THEN digit_run(ahead, Append(int.lexeme, "."))
               ELSE int
    IN add_literal_token(all.s, "Number", all.lexeme, Literal_Number(parse_f64(all.lexeme)))

\* The keyword table of Scanner::identifier.
keyword(lexeme) ==
    CASE lexeme = <<"a", "n", "d">> -> "And"
      [] lexeme = <<"c", "l", "a", "s", "s">> -> "Class"
      [] lexeme = <<"e", "l", "s", "e">> -> "Else"
      [] lexeme = <<"f", "a", "l", "s", "e">> -> "False"
      [] lexeme = <<"f", "o", "r">> -> "For"
      [] lexeme = <<"f", "u", "n">> -> "Fun"
      [] lexeme = <<"i", "f">> -> "If"
      [] lexeme = <<"n", "i", "l">> -> "Nil"
      [] lexeme = <<"o", "r">> -> "Or"
      [] lexeme = <<"p", "r", "i", "n", "t">> -> "Print"
      [] lexeme = <<"r", "e", "t", "u", "r", "n">> -> "Return"
      [] lexeme = <<"s", "u", "p", "e", "r">> -> "Super"
      [] lexeme = <<"t", "h", "i", "s">> -> "This"
      [] lexeme = <<"t", "r", "u", "e">> -> "True"
      [] lexeme = <<"v", "a", "r">> -> "Var"
      [] lexeme = <<"w", "h", "i", "l", "e">> -> "While"
      [] OTHER -> "Identifier"
RECURSIVE identifier_run(_, _)
identifier_run(s, lexeme) ==
    IF peek(s) # NoChar /\ (is_ascii_alphanumeric(peek(s)) \/ peek(s) = "_")
    THEN identifier_run(advance(s), Append(lexeme, peek(s)))
    ELSE [s |-> s, lexeme |-> lexeme]
\* Scanner::identifier
identifier(s, first_char) ==
    LET r == identifier_run(s, <<first_char>>) IN
    add_chars_token(r.s, keyword(r.lexeme), r.lexeme)

unexpected_stops(s) == [s EXCEPT !.had_error = TRUE, !.pos = Len(s.source)]
\* The `_` arm of scan_token: report, set had_error, go on.
unexpected(s) == [s EXCEPT !.had_error = TRUE]

\* Scanner::scan_token(c), c being the character advance() has just consumed.
scan_token(s, c) ==
    CASE c \in SingleChars -> add_chars_token(s, single_type(c), <<c>>)
      [] c \in OperatorChars -> operator(s, c)
      [] c = "/" -> slash_or_comment(s)
      [] c \in BlankChars -> s
      [] c = "\n" -> [s EXCEPT !.line = @ + 1]
      [] c = "\"" -> string(s)
      [] is_ascii_digit(c) -> number(s, c)
      [] is_ascii_alphabetic(c) \/ c = "_" -> identifier(s, c)
      [] OTHER -> unexpected(s)

\* Scanner::scan_tokens, the part after the loop: the Eof token and the result.
scan_result(s) ==
    [tokens |-> Append(s.tokens, Token_new("Eof", <<>>, None, s.line)),
     had_error |-> s.had_error]
\* Scanner::scan_tokens as a function of the source.
RECURSIVE scan_loop(_)
scan_loop(s) ==
    IF peek(s) = NoChar THEN s ELSE scan_loop(scan_token(advance(s), peek(s)))
scan_tokens(source) == scan_result(scan_loop(Scanner_new(source)))

\* impl Display for Token: the token type in upper case, with '_' in eight of them.
TokenTypeText ==
    [ LeftParen |-> <<"L", "E", "F", "T", "_", "P", "A", "R", "E", "N">>,
      RightParen |-> <<"R", "I", "G", "H", "T", "_", "P", "A", "R", "E", "N">>,
      LeftBrace |-> <<"L", "E", "F", "T", "_", "B", "R", "A", "C", "E">>,
      RightBrace |-> <<"R", "I", "G", "H", "T", "_", "B", "R", "A", "C", "E">>,
      Comma |-> <<"C", "O", "M", "M", "A">>,
      Dot |-> <<"D", "O", "T">>,
      Minus |-> <<"M", "I", "N", "U", "S">>,
      Plus |-> <<"P", "L", "U", "S">>,
      Semicolon |-> <<"S", "E", "M", "I", "C", "O", "L", "O", "N">>,
      Slash |-> <<"S", "L", "A", "S", "H">>,
      Star |-> <<"S", "T", "A", "R">>,
      Bang |-> <<"B", "A", "N", "G">>,
      BangEqual |-> <<"B", "A", "N", "G", "_", "E", "Q", "U", "A", "L">>,
      Equal |-> <<"E", "Q", "U", "A", "L">>,
      EqualEqual |-> <<"E", "Q", "U", "A", "L", "_", "E", "Q", "U", "A", "L">>,
      Greater |-> <<"G", "R", "E", "A", "T", "E", "R">>,
      GreaterEqual |-> <<"G", "R", "E", "A", "T", "E", "R", "_", "E", "Q", "U", "A", "L">>,
      Less |-> <<"L", "E", "S", "S">>,
      LessEqual |-> <<"L", "E", "S", "S", "_", "E", "Q", "U", "A", "L">>,
      Identifier |-> <<"I", "D", "E", "N", "T", "I", "F", "I", "E", "R">>,
      String |-> <<"S", "T", "R", "I", "N", "G">>,
      Number |-> <<"N", "U", "M", "B", "E", "R">>,
      And |-> <<"A", "N", "D">>,
      Class |-> <<"C", "L", "A", "S", "S">>,
      Else |-> <<"E", "L", "S", "E">>,
      False |-> <<"F", "A", "L", "S", "E">>,
      Fun |-> <<"F", "U", "N">>,
      For |-> <<"F", "O", "R">>,
      If |-> <<"I", "F">>,
      Nil |-> <<"N", "I", "L">>,
      Or |-> <<"O", "R">>,
      Return |-> <<"R", "E", "T", "U", "R", "N">>,
      Super |-> <<"S", "U", "P", "E", "R">>,
      This |-> <<"T", "H", "I", "S">>,
      True |-> <<"T", "R", "U", "E">>,
      Var |-> <<"V", "A", "R">>,
      While |-> <<"W", "H", "I", "L", "E">>,
      Eof |-> <<"E", "O", "F">> ]
    @@ ("Print" :> <<"P", "R", "I", "N", "T">>)
RECURSIVE nat_chars(_)
nat_chars(n) ==
    IF n < 10 THEN <<DigitChars[n + 1]>>
    ELSE nat_chars(n \div 10) \o <<DigitChars[(n % 10) + 1]>>
\* format!("{0:.1}", n) when n.fract() == 0.0, else format!("{}", n)
format_f64(n) == nat_chars(n.i) \o <<".">> \o (IF n.f = <<>> THEN <<"0">> ELSE n.f)
literal_text(literal) ==
    IF literal = None THEN <<"n", "u", "l", "l">>
    ELSE IF literal.l = "Number" THEN format_f64(literal.n)
    ELSE literal.s
\* write!(f, "{} {} {}", token_type, lexeme, literal)
Token_fmt(tok) ==
    TokenTypeText[tok.token_type] \o <<" ">> \o tok.lexeme \o <<" ">>
    \o literal_text(tok.literal)

\* The scanner is in its loop with character c next.
Scanning(c) == scanner # None /\ scanned = None /\ peek(scanner) = c
\* One turn of the loop of scan_tokens: advance() and scan_token(c).
ScanStep ==
    /\ scanner' = scan_token(advance(scanner), peek(scanner))
    /\ UNCHANGED <<scanned, parser, parsed, prog, stack, ret, env, envs, out, result>>

ScanSingle == (\E c \in SingleChars : Scanning(c)) /\ ScanStep
ScanOperator == (\E c \in OperatorChars : Scanning(c)) /\ ScanStep
ScanSlash == Scanning("/") /\ ScanStep
ScanBlank == (\E c \in BlankChars : Scanning(c)) /\ ScanStep
ScanNewline == Scanning("\n") /\ ScanStep
ScanString == Scanning("\"") /\ ScanStep
ScanNumber == (\E c \in Digits : Scanning(c)) /\ ScanStep
ScanIdentifier == (\E c \in Letters \cup {"_"} : Scanning(c)) /\ ScanStep
ScanUnexpected ==
    /\ scanner # None /\ scanned = None
    /\ peek(scanner) \notin
         {NoChar, "/", "\n", "\"", "_"} \cup SingleChars \cup OperatorChars \cup BlankChars
         \cup Digits \cup Letters
    /\ ScanStep
\* The loop has ended: push Eof and return (tokens, had_error).
ScanEof ==
    /\ Scanning(NoChar)
    /\ scanned' = scan_result(scanner)
    /\ UNCHANGED <<scanner, parser, parsed, prog, stack, ret, env, envs, out, result>>

\* The characters the source texts are drawn from.
Alphabet == {"(", "=", "/", "\"", "\n", " ", "1", ".", "o", "r", "@"}
Sources == UNION { [1..n -> Alphabet] : n \in 0..MaxSrc }
\* The interpreter is not running.
InterpreterIdle ==
    /\ prog = <<>> /\ stack = <<>> /\ ret = NoRet
    /\ env = 1 /\ envs = <<GlobalEnv>>
    /\ out = <<>> /\ result = NoRet

ScannerInit ==
    /\ InterpreterIdle
    /\ parser = None /\ parsed = None
    /\ scanner \in { Scanner_new(source) : source \in Sources }
    /\ scanned = None

ScannerNext ==
    \/ ScanSingle
    \/ ScanOperator
    \/ ScanSlash
    \/ ScanBlank
    \/ ScanNewline
    \/ ScanString
    \/ ScanNumber
    \/ ScanIdentifier
    \/ ScanUnexpected
    \/ ScanEof

ScannerSpec == ScannerInit /\ [][ScannerNext]_vars

(***************************************************************************)
(* Parser (src/src/parser.rs).  The parser state p is the Parser struct:   *)
(* tokens, current (the index of the token peek() reads, from 0) and       *)
(* had_error; reported counts the lines error() has written to stderr.     *)
(* stack holds the activations of the parsing methods, the caller below    *)
(* its callee: fn is the method, pc the place it has reached, v the locals *)
(* it has computed, at the value of current when the present turn of its   *)
(* loop began.  ret is the tree the method that returned last has built.   *)
(* A loop whose turn leaves current where it was repeats that turn for     *)
(* ever: hangs records that parse() never returns.                         *)
(***************************************************************************)
\* Option::Some(x); Option::None is None.
Some(x) == [some |-> x]
Activation(fn) == [fn |-> fn, pc |-> "start", v |-> <<>>, at |-> 0]
\* Parser::new, with parse() called on it
Parser_new(tokens) ==
    [tokens |-> tokens, current |-> 0, had_error |-> FALSE, reported |-> 0,
     hangs |-> FALSE, stack |-> <<Activation("parse")>>, ret |-> None]
\* Parser::peek, Parser::previous, Parser::is_at_end, Parser::check, Parser::advance
Parser_peek(p) == p.tokens[p.current + 1]
Parser_previous(p) == p.tokens[p.current]
is_at_end(p) == Parser_peek(p).token_type = "Eof"
check(p, token_type) == ~is_at_end(p) /\ Parser_peek(p).token_type = token_type
Parser_advance(p) == IF is_at_end(p) THEN p ELSE [p EXCEPT !.current = @ + 1]
\* Parser::match_token: whether the current token is one of `types`, and the parser
\* past it if so.
match_token(p, types) ==
    [matched |-> \E t \in types : check(p, t),
     p |-> IF \E t \in types : check(p, t) THEN Parser_advance(p) ELSE p]
error_unflagged(p) == [p EXCEPT !.reported = @ + 1]
\* Parser::error: eprintln! and had_error.set(true)
error(p) == [p EXCEPT !.reported = @ + 1, !.had_error = TRUE]
\* Parser::consume; the token it returns is peek() of the parser it was called on.
consume(p, token_type) == IF check(p, token_type) THEN Parser_advance(p) ELSE error(p)
\* A loop of the parser repeats a turn that consumed nothing.
Hang(p) == [p EXCEPT !.hangs = TRUE]

\* The running method, now f, calls method fn.
Enter(p, f, fn) ==
    [p EXCEPT !.stack = Append([p.stack EXCEPT ![Len(p.stack)] = f], Activation(fn)),
              !.ret = None]
\* The running method returns tree.
Leave(p, tree) == [p EXCEPT !.stack = SubSeq(p.stack, 1, Len(p.stack) - 1), !.ret = tree]
\* `return self.fn()`: the running method returns what fn returns.
Become(p, fn) == [p EXCEPT !.stack[Len(p.stack)] = Activation(fn)]
\* Method fn is running.
In(fn) ==
    /\ parser # None /\ parsed = None
    /\ ~parser.hangs
    /\ parser.stack # <<>>
    /\ parser.stack[Len(parser.stack)].fn = fn
Running == parser.stack[Len(parser.stack)]
ParserStep(q) ==
    /\ parser' = q
    /\ UNCHANGED <<parsed, scanner, scanned, prog, stack, ret, env, envs, out, result>>

\* Parser::parse, the head of `while !self.is_at_end()` with stmts = f.v, and what
\* follows the loop: (None, true) after an error, else (Some(stmts), false).
parse_loop(p, f) ==
    IF is_at_end(p)
    THEN Leave(p, IF p.had_error THEN [stmts |-> None, had_error |-> TRUE]
                  ELSE [stmts |-> Some(f.v), had_error |-> FALSE])
    ELSE Enter(p, [f EXCEPT !.pc = "statement", !.at = p.current], "statement")
\* Parser::parse
Parse ==
    /\ In("parse")
    /\ LET p == parser
           f == Running
           q == CASE f.pc = "start" ->
                       IF Parser_peek(p).token_type = "Eof"
                       THEN Leave(p, [stmts |-> None, had_error |-> p.had_error])
                       ELSE parse_loop(p, f)
                  [] f.pc = "statement" ->
                       IF p.current = f.at THEN Hang(p)
                       ELSE parse_loop(p, [f EXCEPT !.v = Append(@, p.ret)])
       IN /\ parser' = q
          /\ parsed' = IF q.stack = <<>> THEN q.ret ELSE None
    /\ UNCHANGED <<scanner, scanned, prog, stack, ret, env, envs, out, result>>

\* The keyword or brace a statement other than an expression statement begins with.
statement_of ==
    [t \in {"While", "For", "LeftBrace", "If", "Var", "Print", "Break", "Continue"} |->
       CASE t = "While" -> "while_statement"
         [] t = "For" -> "for_statement"
         [] t = "LeftBrace" -> "block_statement"
         [] t = "If" -> "if_statement"
         [] t = "Var" -> "var_declaration"
         [] t = "Print" -> "print_statement"
         [] t = "Break" -> "break_statement"
         [] t = "Continue" -> "continue_statement"]
\* Parser::statement
Statement ==
    /\ In("statement")
    /\ LET m == match_token(parser, DOMAIN statement_of) IN
       ParserStep(IF m.matched
                  THEN Become(m.p, statement_of[Parser_previous(m.p).token_type])
                  ELSE Become(parser, "expression_statement"))

\* Parser::for_statement from `self.consume(RightParen, ..)` on
for_body(p, f) == Enter(consume(p, "RightParen"), [f EXCEPT !.pc = "body"], "statement")
\* Parser::for_statement from `self.consume(Semicolon, ..)` on
for_increment(p, f) ==
    LET q == consume(p, "Semicolon") IN
    IF check(q, "RightParen") THEN for_body(q, [f EXCEPT !.v = Append(@, None)])
    ELSE Enter(q, [f EXCEPT !.pc = "increment"], "increment_statement")
\* Parser::for_statement from `let condition` on
for_condition(p, f) ==
    IF check(p, "Semicolon") THEN for_increment(p, [f EXCEPT !.v = Append(@, None)])
    ELSE Enter(p, [f EXCEPT !.pc = "condition"], "expression")
\* Parser::for_statement
ForStatement ==
    /\ In("for_statement")
    /\ LET p == parser
           f == Running
           q == consume(p, "LeftParen")
           var == match_token(q, {"Var"})
           semi == match_token(q, {"Semicolon"})
       IN ParserStep(
            CASE f.pc = "start" ->
                   IF var.matched
                   THEN Enter(var.p, [f EXCEPT !.pc = "initializer"], "var_declaration")
                   ELSE IF semi.matched
                   THEN for_condition(semi.p, [f EXCEPT !.v = <<None>>])
                   ELSE Enter(q, [f EXCEPT !.pc = "initializer"], "expression_statement")
              [] f.pc = "initializer" -> for_condition(p, [f EXCEPT !.v = <<p.ret>>])
              [] f.pc = "condition" -> for_increment(p, [f EXCEPT !.v = Append(@, p.ret)])
              [] f.pc = "increment" -> for_body(p, [f EXCEPT !.v = Append(@, p.ret)])
              [] f.pc = "body" -> Leave(p, SFor(f.v[1], f.v[2], f.v[3], p.ret)))
\* Parser::break_statement
BreakStatement ==
    /\ In("break_statement")
    /\ ParserStep(Leave(consume(parser, "Semicolon"), SBreak))
\* Parser::continue_statement
ContinueStatement ==
    /\ In("continue_statement")
    /\ ParserStep(Leave(consume(parser, "Semicolon"), SContinue))
\* Parser::while_statement
WhileStatement ==
    /\ In("while_statement")
    /\ LET p == parser
           f == Running
       IN ParserStep(
            CASE f.pc = "start" ->
                   Enter(consume(p, "LeftParen"), [f EXCEPT !.pc = "condition"], "expression")
              [] f.pc = "condition" ->
                   Enter(consume(p, "RightParen"),
                         [f EXCEPT !.pc = "body", !.v = <<p.ret>>], "statement")
              [] f.pc = "body" -> Leave(p, SWhile(f.v[1], p.ret)))
\* Parser::if_statement
IfStatement ==
    /\ In("if_statement")
    /\ LET p == parser
           f == Running
           m == match_token(p, {"Else"})
       IN ParserStep(
            CASE f.pc = "start" ->
                   Enter(consume(p, "LeftParen"), [f EXCEPT !.pc = "condition"], "expression")
              [] f.pc = "condition" ->
                   Enter(consume(p, "RightParen"),
                         [f EXCEPT !.pc = "then_branch", !.v = <<p.ret>>], "statement")
              [] f.pc = "then_branch" ->
                   IF m.matched
                   THEN Enter(m.p, [f EXCEPT !.pc = "else_branch", !.v = Append(@, p.ret)],
                              "statement")
                   ELSE Leave(p, SIf(f.v[1], p.ret, None))
              [] f.pc = "else_branch" -> Leave(p, SIf(f.v[1], f.v[2], p.ret)))
\* Parser::var_declaration
VarDeclaration ==
    /\ In("var_declaration")
    /\ LET p == parser
           f == Running
           q == consume(p, "Identifier")
           m == match_token(q, {"Equal"})
       IN ParserStep(
            CASE f.pc = "start" ->
                   IF m.matched
                   THEN Enter(m.p, [f EXCEPT !.pc = "initializer",
                                             !.v = <<Parser_peek(p).lexeme>>], "expression")
                   ELSE Leave(consume(q, "Semicolon"), SVar(Parser_peek(p).lexeme, None))
              [] f.pc = "initializer" ->
                   Leave(consume(p, "Semicolon"), SVar(f.v[1], p.ret)))
\* Parser::print_statement
PrintStatement ==
    /\ In("print_statement")
    /\ LET p == parser
           f == Running
       IN ParserStep(
            CASE f.pc = "start" -> Enter(p, [f EXCEPT !.pc = "value"], "expression")
              [] f.pc = "value" -> Leave(consume(p, "Semicolon"), SPrint(p.ret)))
\* Parser::block_statement, the head of `while !self.match_token(&[RightBrace])`
\* with stmts = f.v.
block_loop(p, f) ==
    LET m == match_token(p, {"RightBrace"}) IN
    IF m.matched THEN Leave(m.p, SBlock(f.v))
    ELSE IF is_at_end(p) THEN Leave(error(p), SBlock(f.v))
    ELSE Enter(p, [f EXCEPT !.pc = "statement", !.at = p.current], "statement")
\* Parser::block_statement
BlockStatement ==
    /\ In("block_statement")
    /\ LET p == parser
           f == Running
       IN ParserStep(
            CASE f.pc = "start" -> block_loop(p, f)
              [] f.pc = "statement" ->
                   IF p.current = f.at THEN Hang(p)
                   ELSE block_loop(p, [f EXCEPT !.v = Append(@, p.ret)]))
\* Parser::expression_statement
ExpressionStatement ==
    /\ In("expression_statement")
    /\ LET p == parser
           f == Running
       IN ParserStep(
            CASE f.pc = "start" -> Enter(p, [f EXCEPT !.pc = "expr"], "expression")
              [] f.pc = "expr" -> Leave(consume(p, "Semicolon"), SExpression(p.ret)))
\* Parser::increment_statement
IncrementStatement ==
    /\ In("increment_statement")
    /\ LET p == parser
           f == Running
       IN ParserStep(
            CASE f.pc = "start" -> Enter(p, [f EXCEPT !.pc = "expr"], "expression")
              [] f.pc = "expr" -> Leave(p, SExpression(p.ret)))
\* Parser::expression
Expression ==
    /\ In("expression")
    /\ ParserStep(Become(parser, "assignment"))
assign_target_silent(p, target, value) ==
    IF target.e = "Variable" THEN Leave(p, EAssign(target.name, value))
    ELSE Leave(p, target)
\* Parser::assignment after `let value = self.assignment()`: the Assign node when
\* the left side is a Variable, else "Invalid assignment target." and the left side.
assign_target(p, target, value) ==
    IF target.e = "Variable" THEN Leave(p, EAssign(target.name, value))
    ELSE Leave(error(p), target)
\* Parser::assignment
Assignment ==
    /\ In("assignment")
    /\ LET p == parser
           f == Running
           m == match_token(p, {"Equal"})
       IN ParserStep(
            CASE f.pc = "start" -> Enter(p, [f EXCEPT !.pc = "expr"], "logic")
              [] f.pc = "expr" ->
                   IF m.matched
                   THEN Enter(m.p, [f EXCEPT !.pc = "value", !.v = <<p.ret>>], "assignment")
                   ELSE Leave(p, p.ret)
              [] f.pc = "value" -> assign_target(p, f.v[1], p.ret))
\* `while self.match_token(ops) { operator; right = self.operand(); expr = Node }`
\* of logic, comparison, term and factor, from its head on, with expr.
operator_loop(p, f, expr, ops, operand) ==
    LET m == match_token(p, ops) IN
    IF m.matched
    THEN Enter(m.p, [f EXCEPT !.pc = "right",
                              !.v = <<expr, Parser_previous(m.p).token_type>>], operand)
    ELSE Leave(p, expr)
\* Parser::logic
Logic ==
    /\ In("logic")
    /\ LET p == parser
           f == Running
       IN ParserStep(
            CASE f.pc = "start" -> Enter(p, [f EXCEPT !.pc = "expr"], "equality")
              [] f.pc = "expr" -> operator_loop(p, f, p.ret, {"Or", "And"}, "equality")
              [] f.pc = "right" ->
                   operator_loop(p, f, ELogical(f.v[1], f.v[2], p.ret), {"Or", "And"},
                                 "equality"))
\* Parser::equality: `if self.match_token(..)`, one operator at most
Equality ==
    /\ In("equality")
    /\ LET p == parser
           f == Running
           m == match_token(p, {"EqualEqual", "BangEqual"})
       IN ParserStep(
            CASE f.pc = "start" -> Enter(p, [f EXCEPT !.pc = "expr"], "comparison")
              [] f.pc = "expr" ->
                   IF m.matched
                   THEN Enter(m.p, [f EXCEPT !.pc = "right",
                                             !.v = <<p.ret, Parser_previous(m.p).token_type>>],
                              "comparison")
                   ELSE Leave(p, p.ret)
              [] f.pc = "right" -> Leave(p, EBinary(f.v[1], f.v[2], p.ret)))
ComparisonOps == {"Greater", "GreaterEqual", "Less", "LessEqual"}
\* Parser::comparison
Comparison ==
    /\ In("comparison")
    /\ LET p == parser
           f == Running
       IN ParserStep(
            CASE f.pc = "start" -> Enter(p, [f EXCEPT !.pc = "expr"], "term")
              [] f.pc = "expr" -> operator_loop(p, f, p.ret, ComparisonOps, "term")
              [] f.pc = "right" ->
                   operator_loop(p, f, EBinary(f.v[1], f.v[2], p.ret), ComparisonOps, "term"))
\* Parser::term
Term ==
    /\ In("term")
    /\ LET p == parser
           f == Running
       IN ParserStep(
            CASE f.pc = "start" -> Enter(p, [f EXCEPT !.pc = "expr"], "factor")
              [] f.pc = "expr" -> operator_loop(p, f, p.ret, {"Plus", "Minus"}, "factor")
              [] f.pc = "right" ->
                   operator_loop(p, f, EBinary(f.v[1], f.v[2], p.ret), {"Plus", "Minus"},
                                 "factor"))
\* Parser::factor
Factor ==
    /\ In("factor")
    /\ LET p == parser
           f == Running
       IN ParserStep(
            CASE f.pc = "start" -> Enter(p, [f EXCEPT !.pc = "expr"], "unary")
              [] f.pc = "expr" -> operator_loop(p, f, p.ret, {"Slash", "Star"}, "unary")
              [] f.pc = "right" ->
                   operator_loop(p, f, EBinary(f.v[1], f.v[2], p.ret), {"Slash", "Star"},
                                 "unary"))
\* Parser::unary
Unary ==
    /\ In("unary")
    /\ LET p == parser
           f == Running
           m == match_token(p, {"Bang", "Minus"})
       IN ParserStep(
            CASE f.pc = "start" ->
                   IF m.matched
                   THEN Enter(m.p, [f EXCEPT !.pc = "right",
                                             !.v = <<Parser_previous(m.p).token_type>>],
                              "unary")
                   ELSE Become(p, "call")
              [] f.pc = "right" -> Leave(p, EUnary(f.v[1], p.ret)))
\* Parser::call after the loop over the arguments, with f.v = <<callee, arguments>>
call_end(p, f) ==
    LET m == match_token(p, {"RightParen"}) IN
    IF m.matched THEN Leave(m.p, ECall(f.v[1], f.v[2]))
    ELSE Leave(error(p), f.v[1])
\* Parser::call, the head of `while !self.check(&TokenType::RightParen)`
call_loop(p, f) ==
    IF check(p, "RightParen") THEN call_end(p, f)
    ELSE Enter(p, [f EXCEPT !.pc = "argument", !.at = p.current], "expression")
\* Parser::call: `if self.match_token(&[LeftParen])`, one argument list at most
Call ==
    /\ In("call")
    /\ LET p == parser
           f == Running
           m == match_token(p, {"LeftParen"})
           g == [f EXCEPT !.v[2] = Append(@, p.ret)]
           q == consume(p, "Comma")
       IN ParserStep(
            CASE f.pc = "start" -> Enter(p, [f EXCEPT !.pc = "callee"], "primary")
              [] f.pc = "callee" ->
                   IF m.matched THEN call_loop(m.p, [f EXCEPT !.v = <<p.ret, <<>> >>])
                   ELSE Leave(p, p.ret)
              [] f.pc = "argument" ->
                   IF check(p, "RightParen") THEN call_end(p, g)
                   ELSE IF q.current = f.at THEN Hang(q)
                   ELSE call_loop(q, g))
\* Parser::primary
Primary ==
    /\ In("primary")
    /\ LET p == parser
           f == Running
           literal == match_token(p, {"False", "True", "Nil", "String", "Number"})
           name == match_token(p, {"Identifier"})
           paren == match_token(p, {"LeftParen"})
       IN ParserStep(
            CASE f.pc = "start" ->
                   IF literal.matched
                   THEN Leave(literal.p, ELiteral(Parser_previous(literal.p)))
                   ELSE IF name.matched
                   THEN Leave(name.p, EVariable(Parser_previous(name.p).lexeme))
                   ELSE IF paren.matched
                   THEN Enter(paren.p, [f EXCEPT !.pc = "expr"], "expression")
                   ELSE Leave(error(p), ELiteral(Parser_peek(p)))
              [] f.pc = "expr" -> Leave(consume(p, "RightParen"), EGrouping(p.ret)))

\* Token streams are at most MaxToks words long, Eof apart.
MaxToks == 3
\* A source text as its characters: the words with a space between them.
RECURSIVE Text(_)
Text(words) ==
    IF words = <<>> THEN <<>>
    ELSE IF Len(words) = 1 THEN words[1]
    ELSE words[1] \o <<" ">> \o Text(Tail(words))
Words ==
    { <<"1">>, <<"x">>, <<"+">>, <<"=">>, <<"(">>, <<")">>, <<";">>, <<"{">> }
WordTexts == UNION { { Text(ws) : ws \in [1..n -> Words] } : n \in 0..MaxToks }

\* Source texts of the statements of the grammar.
\* print 1 + 2 * 3;
Src_Precedence ==
    <<"p", "r", "i", "n", "t", " ", "1", " ", "+", " ", "2", " ", "*", " ",
      "3", ";">>
\* print 2 - 3 - 4;
Src_Associativity ==
    <<"p", "r", "i", "n", "t", " ", "2", " ", "-", " ", "3", " ", "-", " ",
      "4", ";">>
\* f(a)(b)(c);
Src_Chained ==
    <<"f", "(", "a", ")", "(", "b", ")", "(", "c", ")", ";">>
\* f(a, b);
Src_Call ==
    <<"f", "(", "a", ",", " ", "b", ")", ";">>
\* while (x) x = 1;
Src_While ==
    <<"w", "h", "i", "l", "e", " ", "(", "x", ")", " ", "x", " ", "=", " ",
      "1", ";">>
\* for (var x = 1; x; x = x) {}
Src_For ==
    <<"f", "o", "r", " ", "(", "v", "a", "r", " ", "x", " ", "=", " ", "1",
      ";", " ", "x", ";", " ", "x", " ", "=", " ", "x", ")", " ", "{", "}">>
\* if (x) ; else !x;
Src_IfElse ==
    <<"i", "f", " ", "(", "x", ")", " ", ";", " ", "e", "l", "s", "e", " ",
      "!", "x", ";">>
\* var x;
Src_Var ==
    <<"v", "a", "r", " ", "x", ";">>
\* x or 1 < 2;
Src_Logic ==
    <<"x", " ", "o", "r", " ", "1", " ", "<", " ", "2", ";">>
\* a op b op c;  for a binary operator op
ChainOps == { <<"=", "=">>, <<"!", "=">>, <<"<">>, <<">", "=">>, <<"+">>, <<"-">>,
              <<"*">>, <<"/">> }
Src_Chain(op) == <<"1", " ">> \o op \o <<" ", "2", " ">> \o op \o <<" ", "3", ";">>
\* fun f() { return 1; }
Src_Fun ==
    <<"f", "u", "n", " ", "f", "(", ")", " ", "{", " ", "r", "e", "t", "u", "r", "n", " ",
      "1", ";", " ", "}">>
\* return;
Src_Return ==
    <<"r", "e", "t", "u", "r", "n", ";">>
\* a = b = c;
Src_AssignChain ==
    <<"a", " ", "=", " ", "b", " ", "=", " ", "c", ";">>
\* 1 = 2 + 3; print x;
Src_BadTarget ==
    <<"1", " ", "=", " ", "2", " ", "+", " ", "3", ";", " ", "p", "r", "i", "n", "t", " ",
      "x", ";">>
ExampleTexts ==
    { Src_Precedence, Src_Associativity, Src_Chained, Src_Call, Src_While,
      Src_For, Src_IfElse, Src_Var, Src_Logic, Src_Fun, Src_Return, Src_AssignChain,
      Src_BadTarget }
    \cup { Src_Chain(op) : op \in ChainOps }

\* while (x) { break; continue; }
Src_Loop ==
    <<"w", "h", "i", "l", "e", " ", "(", "x", ")", " ", "{", " ", "b", "r", "e", "a", "k",
      ";", " ", "c", "o", "n", "t", "i", "n", "u", "e", ";", " ", "}">>
\* parser.rs names TokenType::Break and TokenType::Continue, which token.rs and the
\* keyword table of the scanner do not have: the tokens of a text with the
\* identifiers break and continue as those two token types.
with_loop_keywords(tokens) ==
    [i \in 1..Len(tokens) |->
       IF tokens[i].token_type = "Identifier" /\ tokens[i].lexeme = <<"b", "r", "e", "a", "k">>
       THEN [tokens[i] EXCEPT !.token_type = "Break"]
       ELSE IF tokens[i].token_type = "Identifier"
               /\ tokens[i].lexeme = <<"c", "o", "n", "t", "i", "n", "u", "e">>
       THEN [tokens[i] EXCEPT !.token_type = "Continue"]
       ELSE tokens[i]]
\* The token streams the parser is given.
TokenStreams ==
    { scan_tokens(text).tokens : text \in WordTexts \cup ExampleTexts }
    \cup { with_loop_keywords(scan_tokens(Src_Loop).tokens) }

\* Parser::new(tokens) and parse() on the tokens of a text.
ParserInit ==
    /\ InterpreterIdle
    /\ scanner = None /\ scanned = None
    /\ parser \in { Parser_new(tokens) : tokens \in TokenStreams }
    /\ parsed = None

ParserNext ==
    \/ Parse
    \/ Statement
    \/ ForStatement
    \/ BreakStatement
    \/ ContinueStatement
    \/ WhileStatement
    \/ IfStatement
    \/ VarDeclaration
    \/ PrintStatement
    \/ BlockStatement
    \/ ExpressionStatement
    \/ IncrementStatement
    \/ Expression
    \/ Assignment
    \/ Logic
    \/ Equality
    \/ Comparison
    \/ Term
    \/ Factor
    \/ Unary
    \/ Call
    \/ Primary

ParserSpec == ParserInit /\ [][ParserNext]_vars

(***************************************************************************)
(* Notions the properties below are stated in.  They are defined from the  *)
(* parent links alone, not from get / assign.                              *)
(***************************************************************************)
\* The d-th ancestor of cell e (0-th: e itself), or 0 when the chain is shorter.
RECURSIVE Ancestor(_, _, _)
Ancestor(E, e, d) ==
    IF e = 0 \/ d = 0 THEN e ELSE Ancestor(E, E[e].parent, d - 1)
\* The distances at which the chain of e binds name.
BinderDistances(E, e, name) ==
    { d \in 0..Len(E) : Ancestor(E, e, d) # 0 /\ contains_key(E, Ancestor(E, e, d), name) }
\* The innermost cell of the chain of e that binds name, or 0.
InnermostBinder(E, e, name) ==
    LET D == BinderDistances(E, e, name) IN
    IF D = {} THEN 0
    ELSE Ancestor(E, e, CHOOSE d \in D : \A d2 \in D : d <= d2)
\* The other cells and names of heap F are those of heap E.
OnlyChanged(E, F, cell, name) ==
    /\ Len(F) = Len(E)
    /\ \A e \in 1..Len(E) :
         /\ F[e].parent = E[e].parent
         /\ \A n \in Names : (e # cell \/ n # name) => F[e].values[n] = E[e].values[n]
\* The invocation on top holds a ScopeGuard.
HoldsGuard(f) ==
    \/ f.fn = "interpret" /\ f.pc \in {"block_ret", "for_init", "for_cond", "for_body", "for_incr"}
    \/ f.fn = "call" /\ f.pc = "body"
\* The value a literal expression evaluates to.
ValueOf(lit) == literal_value(lit.value).v
Done == result # NoRet

(***************************************************************************)
(* C1.  A call's new scope has the function's captured closure as parent,  *)
(* so every name that is not a parameter resolves, on entry to the body,   *)
(* as it resolves from the declaration-site environment.                   *)
(***************************************************************************)
\* The state right after UserFunction::call entered the body.
BodyEntered ==
    /\ Len(stack) >= 2
    /\ stack[Len(stack) - 1].fn = "call"
    /\ stack[Len(stack) - 1].pc = "body"
    /\ Top.fn = "interpret" /\ Top.i = 1 /\ Top.pc = "loop"

C1_CallScopeParentIsClosure ==
    BodyEntered =>
        LET func == stack[Len(stack) - 1].func IN
        /\ envs[env].parent = func.closure
        /\ \A n \in Names :
             (\A k \in 1..Len(func.params) : func.params[k] # n)
                => get(envs, env, n) = get(envs, func.closure, n)

(***************************************************************************)
(* C2.  Scope balance: whenever an invocation is the active one, the       *)
(* current environment is the one that was current when it started, or,    *)
(* while it holds a ScopeGuard (Block, For, call), the child scope of that *)
(* one; so once the guard is dropped, on any exit path, the environment    *)
(* from before the construct is current again.  After the outermost        *)
(* interpret has returned the global environment is current.               *)
(***************************************************************************)
C2_ScopeBalance ==
    /\ stack # <<>> =>
         IF HoldsGuard(Top)
         THEN env # Top.base /\ envs[env].parent = Top.base
         ELSE env = Top.base
    /\ stack = <<>> => env = 1

\* A runtime error has propagated out of scopes nested two or more deep and the
\* global environment is current again.
C2_Witness ==
    /\ Done
    /\ IsError(result)
    /\ env = 1
    /\ Len(envs) >= 4
    /\ \E e \in 1..Len(envs) : envs[e].parent > 1

(***************************************************************************)
(* C3.  A function sees the assignments made to an enclosing variable      *)
(* after its declaration: in  var x = 1; fun f() { print x; } { x = 2; }   *)
(* followed by a call of f from any call site, the call prints 2.          *)
(***************************************************************************)
C3_CallReadsUpdatedValue ==
    prog \in ClosurePrograms /\ Done => out = <<Float(2)>>

(***************************************************************************)
(* C4.  define writes the innermost current scope only: a Var statement    *)
(* binds the name in the current cell and changes no other cell or name;   *)
(* in  var x = a; { var x = b; print x; } print x;  the block prints b and *)
(* the statement after it prints a (also one block deeper).                *)
(***************************************************************************)
\* The step in which Stmt::Var defines its name, and the value it defines.
VarDefines ==
    /\ AtStmt("Var")
    /\ \/ Top.pc = "loop" /\ Cur.initializer = None
       \/ Top.pc = "var_ret" /\ IsOk(ret)
VarValue == IF Top.pc = "loop" THEN Nil ELSE ret.v

C4_ShadowOutput ==
    \A a \in LitExprs, b \in LitExprs :
        /\ prog = ShadowProgram(a, b) /\ Done => out = <<ValueOf(b), ValueOf(a)>>
        /\ prog = ShadowProgram2(a, b) /\ Done => out = <<ValueOf(b), ValueOf(a), ValueOf(a)>>

C4_DefineInnermostOnly ==
    /\ []C4_ShadowOutput
    /\ [][VarDefines =>
            /\ OnlyChanged(envs, envs', env, Cur.name)
            /\ envs'[env].values[Cur.name] = VarValue
            /\ env' = env]_vars

\* var x = 1; { var x = 2; print x; } print x;  has printed 2 then 1.
C4_Witness ==
    /\ prog = ShadowProgram(Num(1), Num(2))
    /\ Done
    /\ out = <<Float(2), Float(1)>>

(***************************************************************************)
(* C5.  get(name) from any cell returns the value of the innermost cell of *)
(* the parent chain that binds name, at any depth; it is the               *)
(* undefined-variable error exactly when no cell of the chain binds name;  *)
(* evaluating a variable changes no cell.                                  *)
(***************************************************************************)
C5_GetSpec ==
    \A e \in 1..Len(envs), n \in Names :
        LET b == InnermostBinder(envs, e, n) IN
        /\ b # 0 => get(envs, e, n) = Ok(envs[b].values[n])
        /\ b = 0 => get(envs, e, n) = Err(UndefinedVariable(n))
        /\ IsErr(get(envs, e, n)) <=> BinderDistances(envs, e, n) = {}

C5_GetInnermost ==
    /\ []C5_GetSpec
    /\ [][AtExpr("Variable") =>
            /\ envs' = envs
            /\ env' = env
            /\ LET b == InnermostBinder(envs, env, Top.expr.name) IN
               ret' = IF b # 0 THEN Ok(envs[b].values[Top.expr.name])
                      ELSE Err(UndefinedVariable(Top.expr.name))]_vars

\* `print x` has read x from a cell two or more links up the chain, past a nearer
\* cell that binds other names only.
C5_Witness ==
    /\ stack # <<>>
    /\ Top.fn = "interpret" /\ Top.pc = "print_ret"
    /\ Cur.expression = V("x")
    /\ BinderDistances(envs, env, "x") # {}
    /\ \A d \in BinderDistances(envs, env, "x") : d >= 2
    /\ ret = Ok(envs[InnermostBinder(envs, env, "x")].values["x"])

(***************************************************************************)
(* C6.  assign(name, value) changes exactly the binding of name in the     *)
(* innermost cell of the chain that binds it and yields the value; when no *)
(* cell of the chain binds name it is the undefined-variable error and the *)
(* heap is unchanged (no binding is created).                              *)
(***************************************************************************)
\* The step in which Expr::Assign calls Environment::assign.
Assigns == AtExpr("Assign") /\ Top.pc = "value" /\ IsOk(ret)

C6_AssignInnermostBinder ==
    [][Assigns =>
         LET name == Top.expr.name
             b == InnermostBinder(envs, env, name)
         IN IF b # 0
            THEN /\ OnlyChanged(envs, envs', b, name)
                 /\ envs'[b].values[name] = ret.v
                 /\ ret' = Ok(ret.v)
            ELSE /\ envs' = envs
                 /\ ret' = Err(UndefinedVariable(name))]_vars

\* y = 1 two blocks deep, where no scope binds y, has failed and bound nothing.
C6_Witness ==
    /\ Done
    /\ result = Err(UndefinedVariable("y"))
    /\ Len(envs) >= 3
    /\ \A e \in 1..Len(envs) : ~contains_key(envs, e, "y")
    /\ envs[1].values["x"] = Float(1)

(***************************************************************************)
(* C7.  While protocol: the body starts only from a truthy result of the   *)
(* condition; after a body that raised Break the loop is over at once (the *)
(* next step is the statement after it, with no condition evaluation);     *)
(* after a body that completed or raised Continue the next step evaluates  *)
(* the condition; no Break or Continue raised in the body leaves the       *)
(* While statement.                                                        *)
(***************************************************************************)
\* The body of the While on top has returned `ret`.
WhileBodyDone == AtStmt("While") /\ Top.pc = "while_body"
\* The stack with its top frame replaced by f.
WithTop(f) == [stack EXCEPT ![Len(stack)] = f]
WhileContextPrograms ==
    { Prelude \o InContext("while", body) \o Epilogue : body \in Bodies }

C7_WhileOutputs ==
    /\ prog = WhileIfProgram(SBreak) /\ Done => out = <<Float(9)>> /\ result = Ok(Nil)
    /\ prog = WhileIfProgram(SBlock(<<SBreak>>)) /\ Done =>
         out = <<Float(9)>> /\ result = Ok(Nil)
    /\ prog = WhileIfProgram(SContinue) /\ Done =>
         out = <<Float(2), Float(9)>> /\ result = Ok(Nil)
    /\ prog \in WhileContextPrograms /\ Done => ~IsControl(result)

C7_WhileProtocol ==
    /\ []C7_WhileOutputs
    /\ [][WhileBodyDone =>
            IF ret = Err(Break)
            THEN /\ stack' = WithTop([Top EXCEPT !.i = Top.i + 1, !.pc = "loop"])
                 /\ ret' = NoRet
            ELSE IF ret = Err(Continue) \/ IsOk(ret)
            THEN /\ stack' = Append(WithTop([Top EXCEPT !.pc = "while_cond"]),
                                    EvaluateFrame(Cur.condition, env))
                 /\ ret' = NoRet
            ELSE ~IsControl(ret')]_vars
    /\ [][/\ AtStmt("While")
          /\ Len(stack') = Len(stack) + 1
          /\ stack'[Len(stack)].pc = "while_body"
          => Top.pc = "while_cond" /\ IsOk(ret) /\ is_true(ret.v)]_vars

\* The loop with `if (x == 1) continue;` has skipped the print of 1, gone on to the
\* next condition check, printed 2, and the statement after the loop has run.
C7_Witness ==
    /\ prog = WhileIfProgram(SContinue)
    /\ Done
    /\ out = <<Float(2), Float(9)>>

(***************************************************************************)
(* C8.  For protocol: the initializer is run on entry only, before the     *)
(* first condition check; after a body that completed or raised Continue   *)
(* the increment is run, once, and then the condition is checked (or, with *)
(* the condition omitted, the body run); after a body that raised Break    *)
(* the loop is over with no increment.                                     *)
(***************************************************************************)
ForBodyDone == AtStmt("For") /\ Top.pc = "for_body"
\* The stack once the loop head is reached: the condition is being evaluated or,
\* with the condition omitted, the body run.
AtForHead(e) ==
    IF Cur.condition # None
    THEN Append(WithTop([Top EXCEPT !.pc = "for_cond"]), EvaluateFrame(Cur.condition, e))
    ELSE Append(WithTop([Top EXCEPT !.pc = "for_body"]), InterpretFrame(<<Cur.body>>, e))

C8_ForOutputs ==
    \A c \in ForConds :
        /\ prog = ForProgram(c, SContinue) /\ Done =>
             out = <<Float(0), Float(2), Float(9)>>
        /\ prog = ForProgram(c, SBreak) /\ Done => out = <<Float(0), Float(9)>>

C8_ForProtocol ==
    /\ []C8_ForOutputs
    /\ [][ForBodyDone =>
            IF IsOk(ret) \/ ret = Err(Continue)
            THEN stack' = IF Cur.increment # None
                          THEN Append(WithTop([Top EXCEPT !.pc = "for_incr"]),
                                      InterpretFrame(<<Cur.increment>>, env))
                          ELSE AtForHead(env)
            ELSE IF ret = Err(Break)
            THEN /\ stack' = WithTop([Top EXCEPT !.i = Top.i + 1, !.pc = "loop"])
                 /\ envs' = envs
            ELSE TRUE]_vars
    /\ [][AtStmt("For") /\ Top.pc = "for_incr" /\ IsOk(ret) => stack' = AtForHead(env)]_vars
    /\ [][AtStmt("For") /\ Top.pc = "for_init" /\ IsOk(ret) => stack' = AtForHead(env)]_vars
    /\ [][AtStmt("For") /\ Top.pc = "loop" =>
            stack' = IF Cur.initializer # None
                     THEN Append(WithTop([Top EXCEPT !.pc = "for_init"]),
                                 InterpretFrame(<<Cur.initializer>>, env'))
                     ELSE AtForHead(env')]_vars
    /\ [][/\ AtStmt("For")
          /\ Len(stack') = Len(stack) + 1
          /\ stack'[Len(stack)].pc = "for_init"
          => Top.pc = "loop"]_vars

\* The For without a condition has run the increment after the iteration that
\* raised Continue (y went from 1 to 2 and 2 was printed) and left at the Break.
C8_Witness ==
    /\ prog = ForProgram(None, SContinue)
    /\ Done
    /\ out = <<Float(0), Float(2), Float(9)>>

(***************************************************************************)
(* C9.  The result the outermost interpret returns is a value or a runtime *)
(* error, never a Break, Continue or Return signal.                        *)
(***************************************************************************)
C9_NoSignalAtTopLevel == Done => ~IsControl(result)

(***************************************************************************)
(* C10.  A runtime error propagates unchanged: the invocation that         *)
(* receives RuntimeError::Error returns that same error at its next step,  *)
(* printing nothing and changing no binding, up to the driver; so no       *)
(* statement after the failing one runs (the final `print 9` of a program  *)
(* that failed has not run).                                               *)
(***************************************************************************)
C10_NoLaterStatement ==
    IsError(result) /\ prog \in ContextPrograms =>
        \A k \in 1..Len(out) : out[k] # Float(9)

C10_ErrorPropagates ==
    /\ []C10_NoLaterStatement
    /\ [][IsError(ret) =>
            /\ out' = out
            /\ \A e \in 1..Len(envs) : envs'[e] = envs[e]
            /\ IF stack # <<>>
               THEN ret' = ret /\ stack' = SubSeq(stack, 1, Len(stack) - 1)
               ELSE result' = ret]_vars

\* An operand-type error raised in a function body called from a while loop has
\* reached the driver through the call, the block and the loop.
C10_Witness ==
    /\ Done
    /\ result = Err(Error("Operand must be a number."))
    /\ \E body \in Bodies : prog = Prelude \o InContext("fun_in_while", body) \o Epilogue
    /\ Len(out) >= 1


(***************************************************************************)
(* C11.  A call reaches Callable::call only with a Callable callee and as  *)
(* many arguments as its arity; otherwise the Call expression returns the  *)
(* not-callable or the arity error at once, creating no scope and running  *)
(* no statement of the body.                                               *)
(***************************************************************************)
\* Expr::Call has evaluated its callee and all its arguments: ret holds the last one.
CallChecked ==
    /\ AtExpr("Call")
    /\ Top.pc \in {"callee", "arg"}
    /\ IsOk(ret)
    /\ Len(Top.vals) = Len(Top.expr.arguments)
CalleeValue == IF Top.pc = "callee" THEN ret.v ELSE Top.vals[1]
ArgValues == IF Top.pc = "callee" THEN <<>> ELSE Append(Tail(Top.vals), ret.v)
\* The Call expression on top returns error e and nothing else changes.
CallRejected(e) ==
    /\ stack' = SubSeq(stack, 1, Len(stack) - 1)
    /\ ret' = Err(e)
    /\ envs' = envs /\ env' = env /\ out' = out
\* The arity error as the claim quotes it: "Expected 2 but got 1."
ArityErrorAsQuoted(expected, got) ==
    Error("Expected " \o ToString(expected) \o " but got " \o ToString(got) \o ".")
\* The arity error with the words "arguments": "Expected 2 arguments but got 1."
ArityErrorWithArguments(expected, got) ==
    Error("Expected " \o ToString(expected) \o " arguments but got " \o ToString(got) \o ".")
CallRule(arity_error(_, _)) ==
    CallChecked =>
      IF CalleeValue.t # "Callable" THEN CallRejected(NotCallableError)
      ELSE IF Len(ArgValues) # arity(CalleeValue)
           THEN CallRejected(arity_error(arity(CalleeValue), Len(ArgValues)))
           ELSE /\ Len(stack') = Len(stack) + 1
                /\ stack'[Len(stack')].fn = "call"
                /\ stack'[Len(stack')].func = CalleeValue
                /\ stack'[Len(stack')].args = ArgValues
\* Every body that is running was entered with a Callable and arity-many arguments.
BodiesWellCalled ==
    \A k \in 1..Len(stack) :
      stack[k].fn = "call" /\ stack[k].pc = "body" =>
        /\ stack[k].func.t = "Callable"
        /\ Len(stack[k].args) = arity(stack[k].func)

\* C11 as stated: the arity error of a two-parameter function called with one
\* argument reads "Expected 2 but got 1."
C11_CallRuleAsQuoted == []BodiesWellCalled /\ [][CallRule(ArityErrorAsQuoted)]_vars

\* C11 (amended): a call invokes the callee only when the callee is a Callable and
\* the argument count equals its arity; a non-callable callee yields the
\* not-callable error and a different argument count the arity error "Expected 2
\* arguments but got 1."; in both cases no scope is created and no statement runs.
C11_CallRule == []BodiesWellCalled /\ [][CallRule(ArityErrorWithArguments)]_vars

\* f(1, 2) has run the body and printed 3; f(1) has just been rejected.
C11_Witness ==
    /\ ret = Err(Error("Expected 2 arguments but got 1."))
    /\ out = <<Float(3)>>
    /\ Len(envs) = 2
    /\ stack # <<>> /\ Top.fn = "interpret"


(***************************************************************************)
(* C12.  'or' with a truthy left operand and 'and' with a falsy one yield  *)
(* the left operand's own value without evaluating the right operand;      *)
(* otherwise the result is the right operand's own value.                  *)
(***************************************************************************)
\* Truthiness as the language defines it: all but nil and false.
Truthy(v) == v # Nil /\ v # Boolean(FALSE)
LeftDecides(op, l) == IF op = "Or" THEN Truthy(l) ELSE op = "And" /\ ~Truthy(l)
\* Expr::Logical has its left value in ret.
LeftEvaluated == AtExpr("Logical") /\ Top.pc = "left" /\ IsOk(ret)
RightEvaluated == AtExpr("Logical") /\ Top.pc = "right" /\ ret # NoRet
LogicalStep ==
    /\ LeftEvaluated =>
         IF LeftDecides(Top.expr.operator, ret.v)
         THEN /\ stack' = SubSeq(stack, 1, Len(stack) - 1)
              /\ ret' = ret
              /\ envs' = envs /\ env' = env /\ out' = out
         ELSE /\ Len(stack') = Len(stack) + 1
              /\ stack'[Len(stack')].fn = "evaluate"
              /\ stack'[Len(stack')].expr = Top.expr.right
    /\ RightEvaluated =>
         /\ stack' = SubSeq(stack, 1, Len(stack) - 1)
         /\ ret' = ret
\* What `var x = 1; print L op R; print x;` prints.
LogicalOutputs ==
    prog \in LogicalPrograms /\ Done =>
      LET l == prog[2].expression.left
          op == prog[2].expression.operator
          r == prog[2].expression.right
      IN IF LeftDecides(op, ValueOf(l)) THEN out = <<ValueOf(l), Float(1)>> /\ IsOk(result)
         ELSE IF r = Failing THEN out = <<>> /\ IsError(result)
         ELSE IF r = EAssign("x", Num(2)) THEN out = <<Float(2), Float(2)>>
         ELSE out = <<ValueOf(r), Float(1)>>

\* C12: logical operators short-circuit: when the left operand decides, the right
\* operand is never evaluated (no side effect, no error) and the result is the left
\* operand's own value; otherwise it is the right operand's own value, uncoerced.
C12_ShortCircuit == []LogicalOutputs /\ [][LogicalStep]_vars

\* `print 0 or (x = 2); print x;` has printed 0 and then 1: the assignment never ran.
C12_Witness ==
    /\ prog = LogicalProgram(Num(0), "Or", EAssign("x", Num(2)))
    /\ Done
    /\ out = <<Float(0), Float(1)>>


(***************************************************************************)
(* C13, C14.  Binary operators on every pair of operand values.            *)
(***************************************************************************)
\* Expr::Binary has both operand values: l in the frame, r in ret.
BinaryApplied(ops) ==
    /\ AtExpr("Binary")
    /\ Top.pc = "right"
    /\ IsOk(ret)
    /\ Top.expr.operator \in ops
\* The expression on top returns r and nothing else changes.
Yields(r) ==
    /\ stack' = SubSeq(stack, 1, Len(stack) - 1)
    /\ ret' = r
    /\ envs' = envs /\ env' = env /\ out' = out
\* Two values of one of the types whose payloads '==' compares.
Comparable(l, r) == l.t = r.t /\ l.t \in {"Float", "String", "Boolean"}
Equals(op, l, r) ==
    IF op = "EqualEqual" THEN Comparable(l, r) /\ l = r
    ELSE ~Comparable(l, r) \/ l # r
\* The value `clock` is bound to; the other operands are literals.
OperandValue(x) == IF x = V("clock") THEN ClockNative ELSE ValueOf(x)
\* The binary expression `print L op R;` prints.
Printed == prog[1].expression
EqualityOutputs ==
    prog \in BinaryPrograms /\ Printed.operator \in EqualityOps /\ Done =>
      /\ IsOk(result)
      /\ out = <<Boolean(Equals(Printed.operator, OperandValue(Printed.left),
                                OperandValue(Printed.right)))>>

\* C13: '==' and '!=' never error and always return a Boolean: two Floats, two
\* Strings or two Booleans compare by payload; every cross-type pair and every pair
\* with nil (nil with nil too) is not equal.
C13_EqualityTotal ==
    /\ []EqualityOutputs
    /\ [][BinaryApplied(EqualityOps) =>
            Yields(Ok(Boolean(Equals(Top.expr.operator, Top.vals[1], ret.v))))]_vars

\* `print nil == nil;` has printed false.
C13_Witness ==
    /\ prog = BinaryProgram(NilLit, "EqualEqual", NilLit)
    /\ Done
    /\ out = <<Boolean(FALSE)>>

\* The result of an arithmetic operator: a value, or OperandError.
OperandError == [t |-> "OperandError"]
Arithmetic(op, l, r) ==
    IF l.t = "Float" /\ r.t = "Float"
    THEN CASE op = "Plus" -> Float(l.n + r.n)
           [] op = "Minus" -> Float(l.n - r.n)
           [] op = "Star" -> Float(l.n * r.n)
           [] op = "Slash" ->
                IF r.n = 0 THEN OperandError
                ELSE Float(CHOOSE q \in -MaxNum..MaxNum : q * r.n = l.n)
    ELSE IF op = "Plus" /\ l.t = "String" /\ r.t = "String" THEN String(l.s \o r.s)
    ELSE OperandError
ArithmeticStep ==
    BinaryApplied(ArithmeticOps) =>
      LET a == Arithmetic(Top.expr.operator, Top.vals[1], ret.v) IN
      IF a = OperandError
      THEN /\ stack' = SubSeq(stack, 1, Len(stack) - 1)
           /\ IsError(ret')
           /\ envs' = envs /\ env' = env /\ out' = out
      ELSE Yields(Ok(a))
ArithmeticOutputs ==
    prog \in BinaryPrograms /\ Printed.operator \in ArithmeticOps /\ Done =>
      LET a == Arithmetic(Printed.operator, OperandValue(Printed.left),
                          OperandValue(Printed.right)) IN
      IF a = OperandError THEN out = <<>> /\ IsError(result)
      ELSE out = <<a>> /\ IsOk(result)

\* C14: '-', '*', '/' succeed only on two Floats and '+' only on two Floats (sum) or
\* two Strings (concatenation); every other operand combination is an error, and
\* '/' by a zero Float is an error and never a value.
C14_ArithmeticOperands == []ArithmeticOutputs /\ [][ArithmeticStep]_vars

\* `print 2 / 0;` has failed without printing.
C14_Witness ==
    /\ prog = BinaryProgram(Num(2), "Slash", Num(0))
    /\ Done
    /\ out = <<>>
    /\ result = Err(Error("Division by zero is not allowed."))


(***************************************************************************)
(* C15, C16, C17.  The scanner, on every source text of the alphabet.      *)
(***************************************************************************)
Source == scanner.source
Newlines(text) == Cardinality({ k \in 1..Len(text) : text[k] = "\n" })
Kinds(tokens) == [k \in 1..Len(tokens) |-> tokens[k].token_type]
Returned == scanned # None
\* The characters scan_token has an arm for.
Expected(c) ==
    \/ c \in SingleChars \cup OperatorChars \cup BlankChars \cup Digits \cup Letters
    \/ c \in {"/", "\n", "\"", "_"}
\* What scan_tokens returns ends the tokens with the only Eof, at the last line.
EofLast ==
    Returned =>
      LET ts == scanned.tokens IN
      /\ ts # <<>>
      /\ \A k \in 1..Len(ts) : ts[k].token_type = "Eof" <=> k = Len(ts)
      /\ ts[Len(ts)].line = 1 + Newlines(Source)
      /\ scanner.pos = Len(Source)
\* A source that starts with an unexpected character yields the tokens of the rest.
RestIsScanned ==
    Returned /\ Source # <<>> /\ ~Expected(Source[1]) =>
      /\ scanned.had_error
      /\ scanned.tokens = scan_tokens(Tail(Source)).tokens
\* Every turn of the loop consumes a character and does not return; an unexpected
\* character costs exactly itself and sets had_error.
ScanGoesOn ==
    scanner # None /\ ~Returned /\ peek(scanner) # NoChar =>
      /\ scanner'.pos > scanner.pos
      /\ scanned' = None
      /\ ~Expected(peek(scanner)) =>
           scanner' = [scanner EXCEPT !.pos = @ + 1, !.had_error = TRUE]

\* C15: scanning ends with a token sequence whose only Eof is its last element, at
\* line 1 + the number of newlines of the source; a lexical error sets had_error
\* and never stops the scan, so the tokens after it are still produced.
C15_EofAndNoEarlyStop ==
    /\ [](EofLast /\ RestIsScanned)
    /\ [](scanner # None /\ ~Returned => ENABLED ScannerNext)
    /\ [][ScanGoesOn]_vars

\* `@(` and a newline: the error is flagged, ( is still a token, Eof is on line 2.
C15_Witness ==
    /\ Returned
    /\ Source = <<"@", "(", "\n">>
    /\ scanned.had_error
    /\ Kinds(scanned.tokens) = <<"LeftParen", "Eof">>
    /\ scanned.tokens[2].line = 2

\* The scanner is at an opening quote that no later quote closes.
AtUnterminated ==
    /\ scanner # None /\ ~Returned
    /\ peek(scanner) = "\""
    /\ \A k \in (scanner.pos + 2)..Len(Source) : Source[k] # "\""
UnterminatedStep ==
    AtUnterminated =>
      /\ scanner'.had_error
      /\ scanner'.tokens = scanner.tokens
      /\ scanner'.pos = Len(Source)
      /\ scanner'.line =
           scanner.line + Newlines(SubSeq(Source, scanner.pos + 2, Len(Source)))
      /\ scanned' = None
\* scan_tokens returns the tokens scanned, then Eof, and the error flag.
EofAppended ==
    Returned =>
      /\ scanned.tokens = Append(scanner.tokens, Token_new("Eof", <<>>, None, scanner.line))
      /\ scanned.had_error = scanner.had_error

\* C16: a string literal the input ends in sets had_error and adds no String token,
\* the tokens before it are kept, the Eof token is still appended, and the newlines
\* inside the string have been counted.
C16_UnterminatedString == []EofAppended /\ [][UnterminatedStep]_vars

\* `("` and a newline: ( is kept, no String token, Eof is on line 2.
C16_Witness ==
    /\ Returned
    /\ Source = <<"(", "\"", "\n">>
    /\ scanned.had_error
    /\ Kinds(scanned.tokens) = <<"LeftParen", "Eof">>
    /\ scanned.tokens[2].line = 2

\* The texts, one after the other, with sep between them.
RECURSIVE Join(_, _)
Join(texts, sep) ==
    IF texts = <<>> THEN <<>>
    ELSE IF Len(texts) = 1 THEN texts[1]
    ELSE texts[1] \o sep \o Join(Tail(texts), sep)
\* The tokens in the textual format, a line each.
Rendered(tokens) == Join([k \in 1..Len(tokens) |-> Token_fmt(tokens[k])], <<"\n">>)
\* The lexemes of the tokens, a space between them.
Lexemes(tokens) == Join([k \in 1..Len(tokens) |-> tokens[k].lexeme], <<" ">>)
RoundTrip(text) ==
    Returned /\ ~scanned.had_error =>
      LET again == scan_tokens(text) IN
      /\ ~again.had_error
      /\ Kinds(again.tokens) = Kinds(scanned.tokens)

\* C17 as stated: lexing the tokens rendered in the textual format
\* ({TOKEN_TYPE} {lexeme} {literal or null}) gives the same token kinds again.
C17_RoundTripOfFormat == RoundTrip(Rendered(scanned.tokens))

\* C17 (amended): for every error-free token stream the lexer produces, lexing the
\* tokens' lexemes, separated by spaces, gives the same sequence of token kinds.
C17_RoundTripOfLexemes == RoundTrip(Lexemes(scanned.tokens))

\* `""=`: a String and an Equal token, scanned without error.
C17_Witness ==
    /\ Returned
    /\ ~scanned.had_error
    /\ Kinds(scanned.tokens) = <<"String", "Equal", "Eof">>
    /\ scanned.tokens[1].lexeme = <<"\"", "\"">>

(***************************************************************************)
(* The parser: the error flag, the tiers and the call rule.                *)
(***************************************************************************)
\* parse() has returned.
ParseReturned == parsed # None
\* error() has been called during the parse.
ErrorReported == parser.reported > 0
\* What parse() returns agrees with whether an error was reported.
ResultAgrees ==
    ParseReturned =>
      /\ ErrorReported => parsed = [stmts |-> None, had_error |-> TRUE]
      /\ parsed.stmts # None => ~ErrorReported /\ ~parsed.had_error

\* C18: once error() has been called during a parse the flag is set and stays set;
\* parse then returns (None, true), and it returns a statement list, with false,
\* only when no error was reported.
C18_StickyFlag ==
    /\ [](parser # None => (ErrorReported <=> parser.had_error) /\ ResultAgrees)
    /\ [][parser # None /\ parser.had_error => parser'.had_error]_vars

\* `1 + ;`: an error was reported in the expression, the statement was completed,
\* and parse returned (None, true).
C18_Witness ==
    /\ ParseReturned
    /\ [k \in 1..Len(parser.tokens) |-> parser.tokens[k].token_type]
         = <<"Number", "Plus", "Semicolon", "Eof">>
    /\ parser.reported = 1
    /\ parsed = [stmts |-> None, had_error |-> TRUE]

\* The parser was given the tokens of text.
Parsing(text) == parser # None /\ parser.tokens = scan_tokens(text).tokens
\* The literal that is token k of the stream, and the operator that is token k.
LiteralAt(k) == ELiteral(parser.tokens[k])
OperatorAt(k) == parser.tokens[k].token_type
\* The parse reports no error, does not loop for ever, and returns the one
\* statement stmt.
ParsesTo(stmt) ==
    /\ ~parser.hangs
    /\ ~parser.had_error
    /\ ParseReturned => parsed = [stmts |-> Some(<<stmt>>), had_error |-> FALSE]

\* C19: a higher tier binds tighter (print 1 + 2 * 3; is 1 + (2 * 3)) and a
\* sequence of operators of one tier, equality, comparison, term or factor, is
\* consumed completely and nested to the left (1 op 2 op 3; is (1 op 2) op 3).
C19_TiersAndLeftNesting ==
    /\ Parsing(Src_Precedence) =>
         ParsesTo(SPrint(EBinary(LiteralAt(2), "Plus",
                                 EBinary(LiteralAt(4), "Star", LiteralAt(6)))))
    /\ Parsing(Src_Associativity) =>
         ParsesTo(SPrint(EBinary(EBinary(LiteralAt(2), "Minus", LiteralAt(4)), "Minus",
                                 LiteralAt(6))))
    /\ \A op \in ChainOps :
         Parsing(Src_Chain(op)) =>
           ParsesTo(SExpression(EBinary(EBinary(LiteralAt(1), OperatorAt(2), LiteralAt(3)),
                                        OperatorAt(4), LiteralAt(5))))

\* C20: f(a)(b)(c); parses without error into nested Call nodes, each argument
\* list applied to the result of the call before it.
C20_ChainedInvocation ==
    Parsing(Src_Chained) =>
      ParsesTo(SExpression(
        ECall(ECall(ECall(EVariable(<<"f">>), <<EVariable(<<"a">>)>>),
                    <<EVariable(<<"b">>)>>),
              <<EVariable(<<"c">>)>>)))

(***************************************************************************)
(* The parser: functions and return, assignment, termination.              *)
(***************************************************************************)
\* C21: fun f() { return 1; } parses without error into a Function statement whose
\* body is a Block, and return; into a Return statement.
C21_FunctionAndReturn ==
    /\ Parsing(Src_Fun) =>
         ParsesTo(SFunction(<<"f">>, <<>>, SBlock(<<SReturn(LiteralAt(7))>>)))
    /\ Parsing(Src_Return) => ParsesTo(SReturn(None))

\* Parser::assignment has parsed the right side of an '=' and is about to build
\* its node.
AssignmentBuilds == In("assignment") /\ Running.pc = "value"
\* The left side of that '='.
Target == Running.v[1]
\* The step returns tree to the caller of assignment, the cursor where it is.
Hands(tree) ==
    /\ parser'.ret = tree
    /\ parser'.stack = SubSeq(parser.stack, 1, Len(parser.stack) - 1)
    /\ parser'.current = parser.current
\* What assignment does once the right side is parsed.
AssignmentStep ==
    AssignmentBuilds =>
      IF Target.e = "Variable"
      THEN /\ Hands(EAssign(Target.name, parser.ret))
           /\ parser'.reported = parser.reported
      ELSE /\ Hands(Target)
           /\ parser'.reported = parser.reported + 1
           /\ parser'.had_error
\* a = b = c; is Assign(a, Assign(b, c)); after 1 = 2 + 3; the one error is the
\* invalid target, the right side is consumed and print x; is parsed to the end.
AssignmentTexts ==
    /\ Parsing(Src_AssignChain) =>
         ParsesTo(SExpression(EAssign(<<"a">>, EAssign(<<"b">>, EVariable(<<"c">>)))))
    /\ Parsing(Src_BadTarget) /\ ParseReturned =>
         /\ parsed = [stmts |-> None, had_error |-> TRUE]
         /\ parser.reported = 1
         /\ is_at_end(parser)

\* C26: a = b = c parses as Assign(a, Assign(b, c)); when '=' follows a left side
\* that is not a Variable the parser, having consumed the right side, reports the
\* invalid target, sets the error flag, and goes on with the tokens that follow.
C26_Assignment == [][AssignmentStep]_vars /\ []AssignmentTexts

\* 1 = 2 + 3; print x; has been parsed to the end with the one error.
C26_Witness ==
    /\ Parsing(Src_BadTarget)
    /\ ParseReturned
    /\ parser.reported = 1
    /\ parser.current = Len(parser.tokens) - 1

\* C27: every turn of the statement loop, the block loop and the argument loop
\* advances the token cursor or ends the loop, so that parse returns.
C27_EveryTurnAdvances == parser # None => ~parser.hangs

(***************************************************************************)
(* The interpreter: how statement sequences end.                           *)
(***************************************************************************)
\* The stack without its top frame.
Popped == SubSeq(stack, 1, Len(stack) - 1)
\* The top invocation, left at its statement, has made a nested invocation.
Nested ==
    /\ Len(stack') = Len(stack) + 1
    /\ SubSeq(stack', 1, Len(stack) - 1) = Popped
    /\ stack'[Len(stack)].stmts = Top.stmts
    /\ stack'[Len(stack)].i = Top.i
\* The invocation that step has made.
Callee == stack'[Len(stack')]
\* The statement cursor of no invocation has gone past a statement that is `kind`.
NeverPassed(kind(_)) ==
    \A k \in 1..Len(stack) :
      stack[k].fn = "interpret" =>
        \A j \in 1..(stack[k].i - 1) : ~kind(stack[k].stmts[j])

\* C22: a return inside blocks and if branches of a function body, at any nesting,
\* ends the enclosing sequences and is the result of the call:
\* fun f() { NEST return 2; } print f(); prints 1 when NEST holds `return 1;`.
C22_ReturnForwarded == prog \in ReturnPrograms /\ Done => out = <<Float(1)>>

\* The body of a while or for loop has returned Ok.
LoopBodyReturned ==
    /\ stack # <<>>
    /\ Top.fn = "interpret"
    /\ Top.i <= Len(Top.stmts)
    /\ \/ Cur.s = "While" /\ Top.pc = "while_body"
       \/ Cur.s = "For" /\ Top.pc = "for_body"
    /\ IsOk(ret)
\* The loop stays at its statement and evaluates the condition, or runs the
\* increment or, without either, the body again.
LoopGoesOn ==
    /\ Nested
    /\ \/ Callee.fn = "evaluate" /\ Callee.expr = Cur.condition
       \/ Cur.s = "For" /\ Callee.fn = "interpret" /\ Callee.stmts = <<Cur.increment>>
       \/ Cur.s = "For" /\ Cur.increment = None /\ Cur.condition = None
          /\ Callee.fn = "interpret" /\ Callee.stmts = <<Cur.body>>
    /\ out' = out
LoopReturnOutputs ==
    Done =>
      /\ prog \in {WhileReturnProgram, ForReturnProgram} =>
           out = <<Float(2), Float(9)>>
      /\ prog = WhileReturnInFunProgram => out = <<Float(5), Float(2)>>
      /\ prog = WhileReturnBreakProgram => out = <<Float(1), Float(9)>>

\* C23: a return executed in the body of a while or for loop does not leave the
\* loop: the value is dropped, the loop goes on until its condition is falsy or
\* Break is raised, and the statements after the loop are executed.
C23_ReturnStaysInLoop == [][LoopBodyReturned => LoopGoesOn]_vars /\ []LoopReturnOutputs

\* var x = 0; while (x < 2) return x = x + 1; print x; print 9;  has printed 2, 9.
C23_Witness ==
    /\ prog = WhileReturnProgram
    /\ Done
    /\ out = <<Float(2), Float(9)>>

IsExpressionStmt(stmt) == stmt.s = "Expression"
\* The expression of an expression statement has been evaluated.
ExpressionEvaluated == AtStmt("Expression") /\ Top.pc = "expr_ret"
\* The invocation returns what it was handed.
SequenceEnds ==
    /\ stack' = Popped
    /\ ret' = ret
    /\ out' = out

\* C24: an expression statement ends its statement sequence with the value of the
\* expression; no cursor ever goes past an expression statement.
C24_ExpressionEndsSequence ==
    /\ []NeverPassed(IsExpressionStmt)
    /\ [][ExpressionEvaluated => SequenceEnds]_vars

\* var x = 0; x = 2; print x; print 9;  has ended with Ok(2) and nothing printed.
C24_Witness ==
    /\ prog = Prelude \o <<SExpression(EAssign("x", Num(2))), SPrint(V("x"))>> \o Epilogue
    /\ Done
    /\ out = <<>>
    /\ result = Ok(Float(2))

\* C25: a function's name is resolvable from inside its body at call time: a
\* function calls itself, two functions of one scope call each other whatever
\* the order of their declarations, and so does a function that was returned
\* from the scope that declared it.  Each program prints 0.
C25_NameResolvableInBody == prog \in RecursionPrograms /\ Done => out = <<Float(0)>>

IsIfElse(stmt) == stmt.s = "If" /\ stmt.else_branch # None
\* The condition of an If has been evaluated; the branch it selects, if any.
IfCondEvaluated == AtStmt("If") /\ Top.pc = "if_cond" /\ IsOk(ret)
BranchTaken == Truthy(ret.v) \/ Cur.else_branch # None
Branch == IF Truthy(ret.v) THEN Cur.then_branch ELSE Cur.else_branch
\* The selected branch has been executed.
IfBranchDone == AtStmt("If") /\ Top.pc = "if_branch"
IfStep ==
    /\ IfCondEvaluated /\ BranchTaken =>
         Nested /\ Callee.fn = "interpret" /\ Callee.stmts = <<Branch>>
    /\ IfCondEvaluated /\ ~BranchTaken =>
         stack' = WithTop([Top EXCEPT !.i = Top.i + 1, !.pc = "loop"])
    /\ IfBranchDone => SequenceEnds

\* C28: an If whose branch is taken ends its statement sequence with the result
\* of the branch; only an If with a falsy condition and no else goes on to the
\* next statement.
C28_TakenIfEndsSequence == []NeverPassed(IsIfElse) /\ [][IfStep]_vars

\* var x = 0; if (x == 1) break; else print x; print x; print 9;  has printed 0 only.
C28_Witness ==
    /\ prog = Prelude \o <<SIf(Eq(V("x"), Num(1)), SBreak, SPrint(V("x"))), SPrint(V("x"))>>
              \o Epilogue
    /\ Done
    /\ out = <<Float(0)>>
    /\ result = Ok(Nil)

\* The body of a user function has returned Break or Continue to UserFunction::call.
SignalFromBody == stack # <<>> /\ Top.fn = "call" /\ Top.pc = "body" /\ IsControl(ret)
\* Expr::Call has the signal from Callable::call.
SignalAtCall == AtExpr("Call") /\ Top.pc = "call" /\ IsControl(ret)
SignalStep ==
    /\ SignalFromBody =>
         /\ stack' = Popped
         /\ ret' = ret
         /\ env' = Top.base
         /\ envs' = envs
    /\ SignalAtCall => stack' = Popped /\ ret' = ret
\* var x = 0; fun f() { BODY } while (x < 2) { { x = x + 1; } print f(); } print 9;
\* and  var x = 0; fun f() { BODY } print f(); print 9;
SignalOutputs ==
    Done =>
      /\ prog = Prelude \o InContext("fun_in_while", <<SPrint(V("x")), SBreak>>) \o Epilogue
           => out = <<Float(1), Float(9)>>
      /\ prog = Prelude \o InContext("fun_in_while", <<SPrint(V("x")), SContinue>>) \o Epilogue
           => out = <<Float(1), Float(2), Float(9)>>
      /\ prog = Prelude \o InContext("fun", <<SBreak>>) \o Epilogue
           => out = <<>> /\ result = Err(Break)

\* C29: Break or Continue raised in a function body outside its loops leaves the
\* call, the caller's environment restored, and is caught by the innermost loop
\* around the call, or is the error result of the program when there is none.
C29_SignalCrossesCall == [][SignalStep]_vars /\ []SignalOutputs

\* The loop around the call has caught the Continue of f twice.
C29_Witness ==
    /\ prog = Prelude \o InContext("fun_in_while", <<SPrint(V("x")), SContinue>>) \o Epilogue
    /\ Done
    /\ out = <<Float(1), Float(2), Float(9)>>

\* The programs that compare a value with itself where == is false.
IrreflexivePrograms ==
    { EqualityPairProgram(NilLit, NilLit), EqualityPairProgram(V("clock"), V("clock")),
      FunctionEqualityProgram }

\* C30: for every pair of values a != b is the negation of a == b, and nil == nil
\* and f == f for a callable f are false.
C30_Complementary ==
    prog \in EqualityPairPrograms /\ Done =>
      /\ Len(out) = 2
      /\ out[1] \in {Boolean(TRUE), Boolean(FALSE)}
      /\ out[2] = Boolean(~out[1].b)
      /\ prog \in IrreflexivePrograms => out[1] = Boolean(FALSE)

\* fun f() {} print f == f; print f != f;  has printed false, true.
C30_Witness ==
    /\ prog = FunctionEqualityProgram
    /\ Done
    /\ out = <<Boolean(FALSE), Boolean(TRUE)>>

=============================================================================
